---- MODULE Spec2Model ----
(***************************************************************************)
(* A model of the price-list pipeline: the extraction strategy cascade of  *)
(* process_pdf (pdf_processor.py), the per-document wrapper and the batch  *)
(* collector (app.py), and the identifier matcher (ai_matcher.py).         *)
(*                                                                         *)
(* Three specifications share the variables below; each one holds the      *)
(* variables of the other two subsystems at their idle values.             *)
(*   SpecPdf    one document through process_single_pdf / process_pdf      *)
(*   SpecMatch  one call of match_product_by_id                            *)
(*   SpecBatch  one run of process_pdfs_background                         *)
(***************************************************************************)
EXTENDS Naturals, Integers, Sequences, FiniteSets, TLC

VARIABLES
    \* ---- process_single_pdf / process_pdf -------------------------------
    vendor,          \* vendor code detect_vendor_code gave the document
    HAS_GEMINI,      \* pdf_processor.HAS_GEMINI: the gemini_parser import worked
    pc,              \* the block of process_pdf control has reached
    running,         \* the extractor now executing, or "none"
    attempts,        \* the extractors invoked so far, with their outcomes
    extracted_data,  \* the running extractor's local result list
    existing_ids,    \* the running extractor's local set of seen product ids
    rows_read,       \* parse results the running extractor has consumed
    page,            \* extract_image_tables: the page (image) being processed
    ocr_pass,        \* extract_image_tables: "primary" (PSM 6) or "alt" (PSM 4)
    pdf_outcome,     \* how process_pdf ended: returned a list, or raised
    entry,           \* the dict process_single_pdf returned for the document
    \* ---- process_pdfs_background ----------------------------------------
    uploaded_files,  \* session['uploaded_files'], as handed to the thread
    results_file,    \* results.json of the session folder
    status_file,     \* status.json of the session folder
    vendor_results,  \* the collector's in-memory result list
    files_to_process,\* uploaded files with no entry in the loaded results
    tasks,           \* the futures submitted to the ThreadPoolExecutor
    done_queue,      \* finished futures, in completion order (as_completed)
    bpc,             \* where process_pdfs_background stands
    \* ---- match_product_by_id / match_product_with_gemini ----------------
    extracted_product,  \* the extracted record handed to the matcher
    reference_database, \* the catalog handed to the matcher
    use_ai_fallback,    \* the use_ai_fallback argument
    GEMINI_API_KEY,     \* ai_matcher.GEMINI_API_KEY is set
    entry_point,        \* the function batch_match_products called
    mpc,                \* where the call stands
    matching_products,  \* the candidate list of match_product_by_id
    compared,           \* catalog positions whose id was normalized and compared
    ai_call,            \* the call of match_product_with_gemini, if any
    match_result,       \* the MatchResult returned
    \* ---- one call of a function of ai_matcher.py or of a vendor parser ---
    callee,             \* the function (and, for a parser, the vendor)
    call_args,          \* the arguments of the call
    call_outcome,       \* pending, or what the call returned or raised
    \* ---- the session's threads ------------------------------------------
    pool,               \* the executor's futures: queued, running, finished
    other_run,          \* a second process_pdfs_background of the session
    session_files       \* session['uploaded_files'] as it stands now

pdfVars == <<vendor, HAS_GEMINI, pc, running, attempts, extracted_data,
             existing_ids, rows_read, page, ocr_pass, pdf_outcome, entry>>

batchVars == <<uploaded_files, results_file, status_file, vendor_results,
               files_to_process, tasks, done_queue, bpc>>

matchVars == <<extracted_product, reference_database, use_ai_fallback,
               GEMINI_API_KEY, entry_point, mpc, matching_products, compared,
               ai_call, match_result>>

callVars == <<callee, call_args, call_outcome>>

sessionVars == <<pool, other_run, session_files>>

vars == <<pdfVars, batchVars, matchVars, callVars, sessionVars>>

(***************************************************************************)
(* Bounds of the model.                                                    *)
(***************************************************************************)
MaxRows == 3
MaxPages == 2
MaxFiles == 3
MaxPrior == 1
MaxCatalog == 3

\* Rows of a catalog sheet.
MaxSheetRows == 2

\* Length of the identifiers enumerated in full.
MaxIdLen == 6

\* clean_cost is called on every cost string of up to MaxCostLen
\* characters over CostAlphabet.
MaxCostLen == 5

\* Files one run hands to its executor (SpecPool); the pool has 10 threads.
MaxBatch == 12

\* Files of one upload while a run is at work (SpecSession).
MaxSessionFiles == 2

\* Words of a raw Quirch Foods description (SpecQuirch).
MaxWords == 3

(***************************************************************************)
(* pdf_processor.py: vendors and the records a parser can hand back.       *)
(***************************************************************************)
VENDOR_CONFIGS ==
    {"rw_zant", "glen_rose", "kruse_sons", "quirch_foods", "purcell",
     "laras_meat", "maui_prices", "cd_international", "royalty_distribution",
     "la_poultry", "tnt_produce", "apsic_wholesale", "delmar_cow",
     "delmar_steer", "gladway", "union_fish", "solomon_wholesale", "da_price",
     "broadleaf", "cofoods", "monarch_trading", "unknown"}

gemini_vendors ==
    {"glen_rose", "kruse_sons", "quirch_foods", "purcell", "laras_meat",
     "maui_prices", "cd_international", "royalty_distribution", "la_poultry",
     "tnt_produce", "apsic_wholesale", "delmar_cow", "delmar_steer",
     "gladway", "union_fish", "solomon_wholesale", "da_price", "broadleaf",
     "cofoods", "monarch_trading", "unknown"}

gemini_fallback_vendors ==
    {"purcell", "laras_meat", "maui_prices", "cd_international",
     "royalty_distribution", "la_poultry", "tnt_produce", "apsic_wholesale",
     "delmar_cow", "delmar_steer", "gladway", "union_fish",
     "solomon_wholesale", "da_price", "broadleaf", "cofoods",
     "monarch_trading"}

\* The {product_id, description, cost} dicts a vendor parser (or
\* clean_product_data) can return for one row.  Two rows may carry the same
\* product id with different descriptions; "N/A" is the absent-id sentinel.
\* The cost plays no part in aggregation and is left out.
ParsedRecords ==
    [product_id : {"330020-61", "N/A"}, description : {"BEEF CHUCK", "PORK LOIN"}]

NoOutcome == [kind |-> "none", data |-> <<>>]
NoEntry == [status |-> "none", data |-> <<>>, error |-> "none"]

\* The order in which process_pdf's blocks follow one another.
NextBlock(b) ==
    CASE b = "gemini" -> "glen_rose"
      [] b = "glen_rose" -> "kruse_sons"
      [] b = "kruse_sons" -> "quirch_foods"
      [] b = "quirch_foods" -> "gemini_fallback"
      [] b = "gemini_fallback" -> "text"
      [] b = "text" -> "ocr"
      [] OTHER -> "done"

\* The condition that guards each block of process_pdf.
BlockApplies(b) ==
    CASE b = "gemini" -> vendor \in gemini_vendors /\ HAS_GEMINI
      [] b = "glen_rose" -> vendor = "glen_rose"
      [] b = "kruse_sons" -> vendor = "kruse_sons"
      [] b = "quirch_foods" -> vendor = "quirch_foods"
      [] b = "gemini_fallback" -> vendor \in gemini_fallback_vendors
      [] OTHER -> TRUE

\* The extractor each block calls.
BlockStrategy(b) ==
    CASE b = "gemini" -> "gemini"
      [] b \in {"glen_rose", "kruse_sons", "quirch_foods", "gemini_fallback"}
            -> "image_structured"
      [] b = "text" -> "text"
      [] OTHER -> "ocr"

\* `if item['product_id'] not in existing_ids: append; add`
AppendIfNew(data, r) ==
    IF r.product_id \in existing_ids THEN data ELSE Append(data, r)

AddIfNew(ids, r) == ids \cup {r.product_id}

\* `existing_ids = {item['product_id'] for item in extracted_data}`
IdsOf(data) == {data[i].product_id : i \in 1..Len(data)}

(***************************************************************************)
(* process_pdf, block by block.                                            *)
(***************************************************************************)
StartExtractor(s) ==
    /\ running' = s
    /\ attempts' = Append(attempts, [strategy |-> s, outcome |-> "running",
                                     data |-> <<>>])
    /\ extracted_data' = <<>>
    /\ existing_ids' = {}
    /\ rows_read' = 0
    /\ page' = 1
    /\ ocr_pass' = "primary"

\* The extractor returns or raises: its locals are gone.
Finish(outcome, data) ==
    /\ running' = "none"
    /\ attempts' = [attempts EXCEPT ![Len(attempts)].outcome = outcome,
                                    ![Len(attempts)].data = data]
    /\ extracted_data' = <<>>
    /\ existing_ids' = {}
    /\ rows_read' = 0
    /\ page' = 1
    /\ ocr_pass' = "primary"

OutcomeOf(data) == IF Len(data) > 0 THEN "records" ELSE "empty"

\* A block whose condition holds calls its extractor; otherwise control
\* falls to the next block.
EnterBlock(b) ==
    /\ pc = b
    /\ running = "none"
    /\ IF BlockApplies(b)
         THEN /\ StartExtractor(BlockStrategy(b))
              /\ UNCHANGED <<vendor, HAS_GEMINI, pc, pdf_outcome, entry>>
         ELSE /\ pc' = NextBlock(b)
              /\ UNCHANGED <<vendor, HAS_GEMINI, running, attempts,
                             extracted_data, existing_ids, rows_read, page,
                             ocr_pass, pdf_outcome, entry>>
    /\ UNCHANGED <<batchVars, matchVars, callVars, sessionVars>>

GeminiBlock == EnterBlock("gemini")
GlenRoseBlock == EnterBlock("glen_rose")
KruseSonsBlock == EnterBlock("kruse_sons")
QuirchFoodsBlock == EnterBlock("quirch_foods")
GeminiFallbackBlock == EnterBlock("gemini_fallback")
TextBlock == EnterBlock("text")
OcrBlock == EnterBlock("ocr")

\* `if data and len(data) > 0: return data`, else fall to block `next`.
ReturnOrFallTo(next) ==
    /\ Finish(OutcomeOf(extracted_data), extracted_data)
    /\ IF Len(extracted_data) > 0
         THEN /\ pdf_outcome' = [kind |-> "returned", data |-> extracted_data]
              /\ pc' = "done"
         ELSE /\ pdf_outcome' = pdf_outcome
              /\ pc' = next

\* parse_gemini_csv_response: one data line; clean_product_data gives a
\* record, which is appended, or None, which is skipped.
GeminiRow ==
    /\ running = "gemini"
    /\ rows_read < MaxRows
    /\ rows_read' = rows_read + 1
    /\ \/ UNCHANGED extracted_data
       \/ \E r \in ParsedRecords : extracted_data' = Append(extracted_data, r)
    /\ UNCHANGED <<vendor, HAS_GEMINI, pc, running, attempts, existing_ids,
                   page, ocr_pass, pdf_outcome, entry>>
    /\ UNCHANGED <<batchVars, matchVars, callVars, sessionVars>>

GeminiReturn ==
    /\ running = "gemini"
    /\ ReturnOrFallTo(NextBlock(pc))
    /\ UNCHANGED <<vendor, HAS_GEMINI, entry>>
    /\ UNCHANGED <<batchVars, matchVars, callVars, sessionVars>>

\* parse_pdf_with_gemini raised (no API key, transport or service error):
\* caught at line 364, control falls through.
GeminiRaise ==
    /\ running = "gemini"
    /\ Finish("raised", <<>>)
    /\ pc' = NextBlock(pc)
    /\ UNCHANGED <<vendor, HAS_GEMINI, pdf_outcome, entry>>
    /\ UNCHANGED <<batchVars, matchVars, callVars, sessionVars>>

\* Lines 581-583: parse_text_line returned the record r.
StructuredRecord(r) ==
    /\ extracted_data' = AppendIfNew(extracted_data, r)
    /\ existing_ids' = AddIfNew(existing_ids, r)

\* extract_image_tables_structured: one OCR line through parse_text_line,
\* which returns None or a record.
StructuredLine ==
    /\ running = "image_structured"
    /\ rows_read < MaxRows
    /\ rows_read' = rows_read + 1
    /\ \/ UNCHANGED <<extracted_data, existing_ids>>
       \/ \E r \in ParsedRecords : StructuredRecord(r)
    /\ UNCHANGED <<vendor, HAS_GEMINI, pc, running, attempts, page, ocr_pass,
                   pdf_outcome, entry>>
    /\ UNCHANGED <<batchVars, matchVars, callVars, sessionVars>>

StructuredReturn ==
    /\ running = "image_structured"
    /\ ReturnOrFallTo(NextBlock(pc))
    /\ UNCHANGED <<vendor, HAS_GEMINI, entry>>
    /\ UNCHANGED <<batchVars, matchVars, callVars, sessionVars>>

\* extract_image_tables_structured raised: re-raised out of process_pdf.
StructuredRaise ==
    /\ running = "image_structured"
    /\ Finish("raised", <<>>)
    /\ pdf_outcome' = [kind |-> "raised", data |-> <<>>]
    /\ pc' = "done"
    /\ UNCHANGED <<vendor, HAS_GEMINI, entry>>
    /\ UNCHANGED <<batchVars, matchVars, callVars, sessionVars>>

\* extract_text_tables: one item of a half page (the loops over left_items
\* and right_items are the same statement over the same accumulators).
TextItem ==
    /\ running = "text"
    /\ rows_read < MaxRows
    /\ rows_read' = rows_read + 1
    /\ \E r \in ParsedRecords :
         /\ extracted_data' = AppendIfNew(extracted_data, r)
         /\ existing_ids' = AddIfNew(existing_ids, r)
    /\ UNCHANGED <<vendor, HAS_GEMINI, pc, running, attempts, page, ocr_pass,
                   pdf_outcome, entry>>
    /\ UNCHANGED <<batchVars, matchVars, callVars, sessionVars>>

TextReturn ==
    /\ running = "text"
    /\ ReturnOrFallTo("ocr")
    /\ UNCHANGED <<vendor, HAS_GEMINI, entry>>
    /\ UNCHANGED <<batchVars, matchVars, callVars, sessionVars>>

\* extract_text_tables raised: caught at line 422, OCR is tried next.
TextRaise ==
    /\ running = "text"
    /\ Finish("raised", <<>>)
    /\ pc' = "ocr"
    /\ UNCHANGED <<vendor, HAS_GEMINI, pdf_outcome, entry>>
    /\ UNCHANGED <<batchVars, matchVars, callVars, sessionVars>>

\* extract_image_tables, primary pass: `extracted_data.extend(parsed_data)`.
OcrPrimaryRow ==
    /\ running = "ocr"
    /\ ocr_pass = "primary"
    /\ rows_read < MaxRows
    /\ rows_read' = rows_read + 1
    /\ \E r \in ParsedRecords : extracted_data' = Append(extracted_data, r)
    /\ UNCHANGED <<vendor, HAS_GEMINI, pc, running, attempts, existing_ids,
                   page, ocr_pass, pdf_outcome, entry>>
    /\ UNCHANGED <<batchVars, matchVars, callVars, sessionVars>>

\* extract_image_tables, line 699: the ids seen so far, taken once per page.
OcrAltSnapshot ==
    /\ running = "ocr"
    /\ ocr_pass = "primary"
    /\ ocr_pass' = "alt"
    /\ existing_ids' = IdsOf(extracted_data)
    /\ UNCHANGED <<vendor, HAS_GEMINI, pc, running, attempts, extracted_data,
                   rows_read, page, pdf_outcome, entry>>
    /\ UNCHANGED <<batchVars, matchVars, callVars, sessionVars>>

\* extract_image_tables, lines 700-702: existing_ids is not updated.
OcrAltRow ==
    /\ running = "ocr"
    /\ ocr_pass = "alt"
    /\ rows_read < MaxRows
    /\ rows_read' = rows_read + 1
    /\ \E r \in ParsedRecords : extracted_data' = AppendIfNew(extracted_data, r)
    /\ UNCHANGED <<vendor, HAS_GEMINI, pc, running, attempts, existing_ids,
                   page, ocr_pass, pdf_outcome, entry>>
    /\ UNCHANGED <<batchVars, matchVars, callVars, sessionVars>>

\* extract_image_tables: the next image of the loop at line 675 (the alt
\* pass of the page ended, or raised and was swallowed at line 703).
OcrNextPage ==
    /\ running = "ocr"
    /\ page < MaxPages
    /\ page' = page + 1
    /\ ocr_pass' = "primary"
    /\ UNCHANGED <<vendor, HAS_GEMINI, pc, running, attempts, extracted_data,
                   existing_ids, rows_read, pdf_outcome, entry>>
    /\ UNCHANGED <<batchVars, matchVars, callVars, sessionVars>>

\* Lines 428-434: a non-empty list is returned; an empty one falls to
\* `return extracted_data`, process_pdf's own empty list.
OcrReturn ==
    /\ running = "ocr"
    /\ Finish(OutcomeOf(extracted_data), extracted_data)
    /\ pdf_outcome' = [kind |-> "returned", data |-> extracted_data]
    /\ pc' = "done"
    /\ UNCHANGED <<vendor, HAS_GEMINI, entry>>
    /\ UNCHANGED <<batchVars, matchVars, callVars, sessionVars>>

OcrRaise ==
    /\ running = "ocr"
    /\ Finish("raised", <<>>)
    /\ pdf_outcome' = [kind |-> "raised", data |-> <<>>]
    /\ pc' = "done"
    /\ UNCHANGED <<vendor, HAS_GEMINI, entry>>
    /\ UNCHANGED <<batchVars, matchVars, callVars, sessionVars>>

\* process_single_pdf, lines 386-412: the try around process_pdf.
ProcessSinglePdf ==
    /\ pc = "done"
    /\ entry = NoEntry
    /\ entry' = IF pdf_outcome.kind = "returned"
                  THEN [status |-> "success", data |-> pdf_outcome.data,
                        error |-> "none"]
                  ELSE [status |-> "error", data |-> <<>>,
                        error |-> "Failed to extract data"]
    /\ UNCHANGED <<vendor, HAS_GEMINI, pc, running, attempts, extracted_data,
                   existing_ids, rows_read, page, ocr_pass, pdf_outcome>>
    /\ UNCHANGED <<batchVars, matchVars, callVars, sessionVars>>

(***************************************************************************)
(* app.py: process_pdfs_background, one run over one session folder.       *)
(***************************************************************************)
\* ThreadPoolExecutor(max_workers=10)
max_workers == 10

\* secure_filename() values of the uploaded documents.  upload_files appends
\* one name per accepted upload, so one name can occur twice in a batch.
FileNames == {"purcell.pdf", "rw_zant.pdf"}

RECURSIVE SeqsUpTo(_, _)
SeqsUpTo(S, n) ==
    IF n = 0 THEN {<<>>}
    ELSE LET shorter == SeqsUpTo(S, n - 1)
         IN  shorter \cup {Append(s, x) : s \in {t \in shorter : Len(t) = n - 1},
                                           x \in S}

\* The dict process_single_pdf returns, lines 393-412 (fields the collector
\* and the status arithmetic read).
ResultEntry(filename, status) == [filename |-> filename, status |-> status]

\* The dict the collector builds when future.result() raises, lines 546-554.
ErrorEntry(filename) == ResultEntry(filename, "error")

\* A collector that puts the newest entry first.
PrependResult(results, result) == <<result>> \o results

\* `vendor_results.append(result)`, line 529.
CollectResult(results, result) == Append(results, result)

\* A collector that loses the entry of a document whose task raised.
DropFailure(results, filename) == results

\* `vendor_results.append({... 'status': 'error' ...})`, lines 546-554.
CollectFailure(results, filename) == Append(results, ErrorEntry(filename))

FilenamesOf(results) == {results[i].filename : i \in 1..Len(results)}

\* A filter that lets every uploaded file through.
EveryFile(files, existing_filenames) == files

\* `[f for f in uploaded_files if f not in existing_filenames]`
FilesNotIn(files, existing_filenames) ==
    LET new(f) == f \notin existing_filenames
    IN  SelectSeq(files, new)

\* Line 541: the 'total' written after each collected result.
ProcessingTotal(results, files) ==
    Len(results) + Len(files)
        - Cardinality({i \in 1..Len(results) :
                          \E j \in 1..Len(files) :
                              results[i].filename = files[j]})

\* Lines 476-490: load results.json (an unreadable file counts as no
\* results) and keep the uploaded files that have no entry yet.
LoadResults ==
    /\ bpc = "start"
    /\ vendor_results' = IF results_file.state = "ok"
                           THEN results_file.entries ELSE <<>>
    /\ files_to_process' = FilesNotIn(uploaded_files,
                                      FilenamesOf(vendor_results'))
    /\ bpc' = "loaded"
    /\ UNCHANGED <<uploaded_files, results_file, status_file, tasks, done_queue>>
    /\ UNCHANGED <<pdfVars, matchVars, callVars, sessionVars>>

\* Lines 492-503: nothing new to process.
AllProcessed ==
    /\ bpc = "loaded"
    /\ files_to_process = <<>>
    /\ status_file' = [status |-> "complete",
                       completed |-> Len(vendor_results),
                       total |-> Len(vendor_results)]
    /\ bpc' = "done"
    /\ UNCHANGED <<uploaded_files, results_file, vendor_results,
                   files_to_process, tasks, done_queue>>
    /\ UNCHANGED <<pdfVars, matchVars, callVars, sessionVars>>

\* Lines 507-522: write the initial status and submit one task per file.
SubmitAll ==
    /\ bpc = "loaded"
    /\ files_to_process # <<>>
    /\ status_file' = [status |-> "processing",
                       completed |-> Len(vendor_results),
                       total |-> Len(vendor_results) + Len(files_to_process)]
    /\ tasks' = [i \in 1..Len(files_to_process) |->
                    [filename |-> files_to_process[i], state |-> "queued",
                     outcome |-> "none"]]
    /\ bpc' = "collecting"
    /\ UNCHANGED <<uploaded_files, results_file, vendor_results,
                   files_to_process, done_queue>>
    /\ UNCHANGED <<pdfVars, matchVars, callVars, sessionVars>>

\* ThreadPoolExecutor(max_workers=10) starts a queued task only while fewer
\* than max_workers of its threads are executing one.
AnyWorker(executing) == executing >= 0

FreeWorker(executing) == executing < max_workers

\* The executor hands the oldest queued task to a free worker thread.
WorkerStart(i) ==
    /\ bpc = "collecting"
    /\ i \in 1..Len(tasks)
    /\ tasks[i].state = "queued"
    /\ \A j \in 1..(i - 1) : tasks[j].state # "queued"
    /\ FreeWorker(Cardinality({j \in 1..Len(tasks) :
                                  tasks[j].state = "running"}))
    /\ tasks' = [tasks EXCEPT ![i].state = "running"]
    /\ UNCHANGED <<uploaded_files, results_file, status_file, vendor_results,
                   files_to_process, done_queue, bpc>>
    /\ UNCHANGED <<pdfVars, matchVars, callVars, sessionVars>>

\* process_single_pdf returns its dict (status 'success' or 'error'), and
\* the future completes.
TaskReturns(i) ==
    /\ bpc = "collecting"
    /\ i \in 1..Len(tasks)
    /\ tasks[i].state = "running"
    /\ \E status \in {"success", "error"} :
          tasks' = [tasks EXCEPT ![i].state = "finished",
                                 ![i].outcome = status]
    /\ done_queue' = Append(done_queue, i)
    /\ UNCHANGED <<uploaded_files, results_file, status_file, vendor_results,
                   files_to_process, bpc>>
    /\ UNCHANGED <<pdfVars, matchVars, callVars, sessionVars>>

\* process_single_pdf raises outside its try (lines 376-384), and the
\* future completes with the exception.
TaskRaises(i) ==
    /\ bpc = "collecting"
    /\ i \in 1..Len(tasks)
    /\ tasks[i].state = "running"
    /\ tasks' = [tasks EXCEPT ![i].state = "finished",
                              ![i].outcome = "raised"]
    /\ done_queue' = Append(done_queue, i)
    /\ UNCHANGED <<uploaded_files, results_file, status_file, vendor_results,
                   files_to_process, bpc>>
    /\ UNCHANGED <<pdfVars, matchVars, callVars, sessionVars>>

\* Lines 525-542: as_completed yields a future whose result() returns.
CollectSuccess ==
    /\ bpc = "collecting"
    /\ done_queue # <<>>
    /\ LET i == Head(done_queue)
       IN  /\ tasks[i].outcome # "raised"
           /\ vendor_results' =
                 CollectResult(vendor_results,
                               ResultEntry(tasks[i].filename, tasks[i].outcome))
           /\ tasks' = [tasks EXCEPT ![i].state = "collected"]
    /\ results_file' = [state |-> "ok", entries |-> vendor_results']
    /\ status_file' = [status |-> "processing",
                       completed |-> Len(vendor_results'),
                       total |-> ProcessingTotal(vendor_results',
                                                 files_to_process)]
    /\ done_queue' = Tail(done_queue)
    /\ UNCHANGED <<uploaded_files, files_to_process, bpc>>
    /\ UNCHANGED <<pdfVars, matchVars, callVars, sessionVars>>

\* Lines 544-558: as_completed yields a future whose result() raises.
CollectError ==
    /\ bpc = "collecting"
    /\ done_queue # <<>>
    /\ LET i == Head(done_queue)
       IN  /\ tasks[i].outcome = "raised"
           /\ vendor_results' = CollectFailure(vendor_results, tasks[i].filename)
           /\ tasks' = [tasks EXCEPT ![i].state = "collected"]
    /\ results_file' = [state |-> "ok", entries |-> vendor_results']
    /\ done_queue' = Tail(done_queue)
    /\ UNCHANGED <<uploaded_files, status_file, files_to_process, bpc>>
    /\ UNCHANGED <<pdfVars, matchVars, callVars, sessionVars>>

\* Lines 560-580: every future has been yielded; write the final status.
FinalStatus ==
    /\ bpc = "collecting"
    /\ \A i \in 1..Len(tasks) : tasks[i].state = "collected"
    /\ status_file' = [status |-> "complete",
                       completed |-> Len(vendor_results),
                       total |-> Len(vendor_results)]
    /\ bpc' = "done"
    /\ UNCHANGED <<uploaded_files, results_file, vendor_results,
                   files_to_process, tasks, done_queue>>
    /\ UNCHANGED <<pdfVars, matchVars, callVars, sessionVars>>

(***************************************************************************)
(* ai_matcher.py.  A Python string is a sequence of one-character strings, *)
(* so that the regular expressions act on characters.                      *)
(***************************************************************************)
Digits == {"0", "1", "2", "3", "4", "5", "6", "7", "8", "9"}

UpperLetters ==
    <<"A", "B", "C", "D", "E", "F", "G", "H", "I", "J", "K", "L", "M", "N",
      "O", "P", "Q", "R", "S", "T", "U", "V", "W", "X", "Y", "Z">>

LowerLetters ==
    <<"a", "b", "c", "d", "e", "f", "g", "h", "i", "j", "k", "l", "m", "n",
      "o", "p", "q", "r", "s", "t", "u", "v", "w", "x", "y", "z">>

\* Code-point order of the characters that occur in identifiers.
CodePoints ==
    <<" ", "-", "/">> \o <<"0", "1", "2", "3", "4", "5", "6", "7", "8", "9">>
        \o UpperLetters \o <<"_">> \o LowerLetters

IsDigit(c) == c \in Digits

IsUpper(c) == \E i \in DOMAIN UpperLetters : UpperLetters[i] = c

\* [A-Z-]
IsUpperOrHyphen(c) == IsUpper(c) \/ c = "-"

Ord(c) == CHOOSE i \in DOMAIN CodePoints : CodePoints[i] = c

\* str.upper()
UpperChar(c) ==
    IF \E i \in DOMAIN LowerLetters : LowerLetters[i] = c
      THEN UpperLetters[CHOOSE i \in DOMAIN LowerLetters : LowerLetters[i] = c]
      ELSE c

Upper(s) == [i \in 1..Len(s) |-> UpperChar(s[i])]

\* str.strip()
RECURSIVE LStrip(_)
LStrip(s) == IF s # <<>> /\ Head(s) = " " THEN LStrip(Tail(s)) ELSE s

RECURSIVE RStrip(_)
RStrip(s) ==
    IF s # <<>> /\ s[Len(s)] = " " THEN RStrip(SubSeq(s, 1, Len(s) - 1)) ELSE s

Strip(s) == RStrip(LStrip(s))

\* `x.lstrip('0') or '0'`
RECURSIVE LStripZeros(_)
LStripZeros(s) == IF s # <<>> /\ Head(s) = "0" THEN LStripZeros(Tail(s)) ELSE s

CoreDigits(s) == IF LStripZeros(s) = <<>> THEN <<"0">> ELSE LStripZeros(s)

\* str.startswith
StartsWith(s, prefix) ==
    Len(s) >= Len(prefix) /\ SubSeq(s, 1, Len(prefix)) = prefix

AllDigits(s, from, to) == \A k \in from..to : IsDigit(s[k])

\* Python values that are not strings of the model's alphabet.
PyNone == <<"None">>
MissingKey == <<"KeyError">>

NA == <<"N", "/", "A">>
NO_MATCH == <<"N", "O", "_", "M", "A", "T", "C", "H">>
SUFFIX_01 == <<"-", "0", "1">>
K002 == <<"K", "0", "0", "2">>
KRUSE == <<"K", "R", "U", "S", "E">>
CG == <<"C", "G">>
KRUSE01 == <<"K", "R", "U", "S", "E", "0", "1">>
CG00001 == <<"C", "G", "0", "0", "0", "0", "1">>
KRUSE5 == <<"K", "R", "U", "S", "E", "5">>
KRUSE05 == <<"K", "R", "U", "S", "E", "0", "5">>

\* r'^K002(\d{3})(-\d{2})(?:[-A-Z]*)$'
K002Match(s) ==
    /\ Len(s) >= 10
    /\ StartsWith(s, K002)
    /\ AllDigits(s, 5, 7)
    /\ s[8] = "-"
    /\ AllDigits(s, 9, 10)
    /\ \A k \in 11..Len(s) : IsUpperOrHyphen(s[k])

\* r'^.*?(\d+)(-\d{2})(?:[A-Z]*)$': the hyphen of group 2 is the last
\* hyphen of the string (what follows it holds none); 0 when none matches.
SuffixHyphen(s) ==
    LET hyphens == {k \in 1..Len(s) : s[k] = "-"}
        h == CHOOSE k \in hyphens : \A j \in hyphens : j <= k
    IN  IF /\ hyphens # {}
           /\ h > 1
           /\ IsDigit(s[h - 1])
           /\ Len(s) >= h + 2
           /\ AllDigits(s, h + 1, h + 2)
           /\ \A k \in (h + 3)..Len(s) : IsUpper(s[k])
          THEN h ELSE 0

\* Start of the digit run that ends at position `last` (group 1 under the
\* non-greedy prefix).
RunStart(s, last) ==
    CHOOSE p \in 1..last :
        /\ AllDigits(s, p, last)
        /\ \A q \in 1..(p - 1) : ~AllDigits(s, q, last)

\* End of the digit run that starts at position `first` (greedy \d+).
RunEnd(s, first) ==
    CHOOSE q \in first..Len(s) :
        /\ AllDigits(s, first, q)
        /\ (q < Len(s) => ~IsDigit(s[q + 1]))

\* r'^.*?(\d+)': position of the first digit, 0 when there is none.
FirstDigit(s) ==
    LET ds == {k \in 1..Len(s) : IsDigit(s[k])}
    IN  IF ds = {} THEN 0 ELSE CHOOSE k \in ds : \A j \in ds : k <= j

normalize_product_id(product_id) ==
    IF product_id = PyNone \/ product_id = <<>> \/ product_id = NA THEN <<>>
    ELSE
      LET cleaned == Upper(Strip(product_id))
          h == SuffixHyphen(cleaned)
          f == FirstDigit(cleaned)
      IN  IF K002Match(cleaned)
            THEN CoreDigits(SubSeq(cleaned, 5, 7)) \o SubSeq(cleaned, 8, 10)
          ELSE IF h > 0
            THEN CoreDigits(SubSeq(cleaned, RunStart(cleaned, h - 1), h - 1))
                    \o SubSeq(cleaned, h, h + 2)
          ELSE IF f > 0
            THEN CoreDigits(SubSeq(cleaned, f, RunEnd(cleaned, f)))
          ELSE cleaned

\* ---- select_simplest_product_id ----------------------------------------
NoProduct == [product_id |-> PyNone, description |-> "None"]

\* complexity_score: r'^K002\d{3}-\d{2}[A-Z-]+' or r'^KRUSE\d+[A-Z-]+'
HasExtraSuffix(pid) ==
    IF /\ Len(pid) >= 11
       /\ StartsWith(pid, K002)
       /\ AllDigits(pid, 5, 7)
       /\ pid[8] = "-"
       /\ AllDigits(pid, 9, 10)
       /\ IsUpperOrHyphen(pid[11])
      THEN 1
    ELSE IF /\ Len(pid) >= 7
            /\ StartsWith(pid, KRUSE)
            /\ IsDigit(pid[6])
            /\ RunEnd(pid, 6) < Len(pid)
            /\ IsUpperOrHyphen(pid[RunEnd(pid, 6) + 1])
      THEN 1
    ELSE 0

complexity_score(product_id) ==
    LET pid == Upper(product_id)
    IN  <<HasExtraSuffix(pid), IF StartsWith(pid, KRUSE) THEN 0 ELSE 1,
          Len(pid), pid>>

\* Python's order on str: code point by code point, a prefix first.
RECURSIVE StrLess(_, _)
StrLess(a, b) ==
    IF b = <<>> THEN FALSE
    ELSE IF a = <<>> THEN TRUE
    ELSE IF Head(a) # Head(b) THEN Ord(Head(a)) < Ord(Head(b))
    ELSE StrLess(Tail(a), Tail(b))

\* Python's order on the score tuples.
ScoreLess(x, y) ==
    \/ x[1] < y[1]
    \/ x[1] = y[1] /\ x[2] < y[2]
    \/ x[1] = y[1] /\ x[2] = y[2] /\ x[3] < y[3]
    \/ x[1] = y[1] /\ x[2] = y[2] /\ x[3] = y[3] /\ StrLess(x[4], y[4])

\* sorted(...)[0]: the least score, the earliest entry among equal scores.
Simplest(products) ==
    LET score(i) == complexity_score(products[i].product_id)
        first == CHOOSE i \in 1..Len(products) :
                    \A j \in 1..Len(products) :
                        \/ ScoreLess(score(i), score(j))
                        \/ (score(i) = score(j) /\ i <= j)
    IN  products[first]

UpperIds(products) ==
    {Upper(products[i].product_id) : i \in 1..Len(products)}

IsKruse(p) == StartsWith(Upper(p.product_id), KRUSE)

IsCG(p) == StartsWith(Upper(p.product_id), CG)

\* A tie-break that takes the first candidate whatever its suffix.
FirstCandidate(products) == products[1]

\* sorted(...) is stable, so the entry it puts first is Simplest(products);
\* other_simple are the remaining entries with no extra suffix.
ClearWinner(products) ==
    LET simplest == Simplest(products)
        simple == {i \in 1..Len(products) :
                      complexity_score(products[i].product_id)[1] = 0}
    IN  IF complexity_score(simplest.product_id)[1] = 0
           /\ Cardinality(simple) = 1
          THEN simplest ELSE NoProduct

select_simplest_product_id(products) ==
    LET kruse_products == SelectSeq(products, IsKruse)
        cg_products == SelectSeq(products, IsCG)
        IsKruse01(p) == Upper(p.product_id) = KRUSE01
    IN  IF products = <<>> THEN NoProduct
        ELSE IF Len(products) = 1 THEN products[1]
        ELSE IF {KRUSE01, CG00001} \subseteq UpperIds(products)
          THEN Head(SelectSeq(products, IsKruse01))
        ELSE IF /\ kruse_products # <<>>
                /\ cg_products # <<>>
                /\ Len(products)
                      = Len(kruse_products) + Len(cg_products)
                /\ Len(kruse_products) = 1
          THEN kruse_products[1]
        ELSE IF {KRUSE5, KRUSE05} \subseteq UpperIds(products)
          THEN NoProduct
        ELSE ClearWinner(products)

\* ---- match_product_by_id: the candidate loop, lines 350-360 -------------
\* A suffix rule that also lets a catalog token gain the '-01'.
SuffixRuleBothWays(normalized_extracted, normalized_ref) ==
    \/ normalized_extracted \o SUFFIX_01 = normalized_ref
    \/ normalized_ref \o SUFFIX_01 = normalized_extracted

\* Strategy 2: `normalized_extracted + '-01' == normalized_ref`
SuffixRule(normalized_extracted, normalized_ref) ==
    normalized_extracted \o SUFFIX_01 = normalized_ref

IsCandidate(normalized_extracted, ref_product) ==
    LET normalized_ref == normalize_product_id(ref_product.product_id)
    IN  \/ normalized_extracted = normalized_ref
        \/ SuffixRule(normalized_extracted, normalized_ref)

RECURSIVE MatchingProducts(_, _)
MatchingProducts(normalized_extracted, database) ==
    IF database = <<>> THEN <<>>
    ELSE LET rest == MatchingProducts(normalized_extracted,
                                      SubSeq(database, 1, Len(database) - 1))
             ref_product == database[Len(database)]
         IN  IF IsCandidate(normalized_extracted, ref_product)
               THEN Append(rest, ref_product) ELSE rest

\* `extracted_product.get('product_id', 'N/A')`
GetProductId(product) ==
    IF product.product_id = MissingKey THEN NA ELSE product.product_id

\* A test that takes no token for short.
NeverShort(normalized) == FALSE

\* `normalized_extracted.isdigit() and len(normalized_extracted) <= 2`
IsShortId(normalized) ==
    /\ normalized # <<>>
    /\ AllDigits(normalized, 1, Len(normalized))
    /\ Len(normalized) <= 2

MatchResult(matched_id, confidence, reasoning, matched_description) ==
    [matched_id |-> matched_id, confidence |-> confidence,
     reasoning |-> reasoning, matched_description |-> matched_description]

NoResult == MatchResult(PyNone, "None", "None", "None")

\* What response.text holds: `fence` tells whether the text is wrapped in a
\* markdown code fence and whether the two re.sub of lines 570-571 remove it
\* ("stripped": ```json, newline, text, newline, ```) or leave it ("kept":
\* any other fencing); `body` tells what json.loads makes of the unfenced
\* text; `matched_id` is the quoted value of the first "matched_id" field
\* in the text (MissingKey: no such field; <<>>: empty quotes).
Response(fence, body, matched_id, confidence) ==
    [fence |-> fence, body |-> body, matched_id |-> matched_id,
     confidence |-> confidence]

NoResponse == Response("none", "none", MissingKey, "None")

\* generate_content (or response.text) raised.
ServiceError == Response("none", "service_error", MissingKey, "None")

NoAiCall == [called |-> FALSE, database |-> <<>>, offered |-> <<>>,
             outcome |-> "none", response |-> NoResponse,
             result |-> NoResult]

\* A call of match_product_with_gemini on `database`, just entered.
PendingCall(database) ==
    [called |-> TRUE, database |-> database, offered |-> <<>>,
     outcome |-> "pending", response |-> NoResponse, result |-> NoResult]

\* build_matching_prompt, line 501: `reference_database[:500]`
limited_db(database) ==
    SubSeq(database, 1, IF Len(database) < 500 THEN Len(database) ELSE 500)

(***************************************************************************)
(* ai_matcher.py: one call of match_product_by_id (or, with use_id_only    *)
(* off in batch_match_products, of match_product_with_gemini).             *)
(***************************************************************************)
\* Catalog entries load_reference_database can return.
ReferenceProducts ==
    {[product_id |-> <<"1", "1", "-", "0", "1">>, description |-> "PORK BUTT"],
     [product_id |-> <<"1", "1">>, description |-> "PORK LOIN"],
     [product_id |-> <<"K", "0", "0", "2", "0", "1", "9", "-", "0", "1">>, description |-> "BEEF CHUCK"],
     [product_id |-> <<"K", "0", "0", "2", "0", "1", "9", "-", "0", "1", "F", "Z">>, description |-> "BEEF CHUCK FROZEN"],
     [product_id |-> <<"K", "r", "u", "s", "e", "5">>, description |-> "SLICED BACON"],
     [product_id |-> <<"K", "r", "u", "s", "e", "0", "5">>, description |-> "BLACK FOREST HAM"],
     [product_id |-> <<"K", "r", "u", "s", "e", "5", "A">>, description |-> "BACON ENDS"],
     [product_id |-> <<"C", "G", "5">>, description |-> "GENERIC BACON"],
     [product_id |-> <<"K", "r", "u", "s", "e", "0", "1">>, description |-> "SMOKED HAM"],
     [product_id |-> <<"C", "G", "0", "0", "0", "0", "1">>, description |-> "GENERIC HAM"],
     [product_id |-> <<"Z", "1", "1", "-", "0", "1">>, description |-> "PORK BUTT BONELESS"]}

\* The catalogs matched against hold distinct entries of one product
\* family, so that a catalog of MaxCatalog entries can hold several
\* candidates for one token next to an entry that is none.
ProductFamilies ==
    {{"PORK BUTT", "PORK LOIN", "PORK BUTT BONELESS", "BEEF CHUCK"},
     {"SLICED BACON", "BLACK FOREST HAM", "BACON ENDS", "GENERIC BACON"},
     {"SMOKED HAM", "GENERIC HAM", "BEEF CHUCK", "BEEF CHUCK FROZEN"}}

Catalogs ==
    LET distinct(s) == \A i, j \in 1..Len(s) : s[i] = s[j] => i = j
        of(family) == {p \in ReferenceProducts : p.description \in family}
    IN  UNION {{s \in SeqsUpTo(of(family), MaxCatalog) : distinct(s)} :
                  family \in ProductFamilies}

\* Values of an extracted record's 'product_id': no such key, None, the
\* empty string, the sentinel, and identifiers.
ExtractedIds ==
    {MissingKey, PyNone, <<>>, NA, <<"1", "1">>, <<"1", "1", "-", "0", "1">>, <<"5">>, <<"1", "9">>, <<"1">>}

\* An id the external model can answer that no catalog entry carries.
UnlistedId == <<"Z", "9", "9">>

IdsIn(database) == {database[i].product_id : i \in 1..Len(database)}

\* Values the model can put in a "matched_id" field.
AnsweredIds(database) ==
    IdsIn(database) \cup {NO_MATCH, UnlistedId, <<>>, MissingKey}

\* What response.text can be: a JSON object, bare or in a fence that is
\* stripped or kept; JSON of another shape; text that is not JSON, bare or
\* fenced, with or without a quoted matched_id field.
Responses(database) ==
    {Response("none", "json_object", id, c) :
        id \in AnsweredIds(database), c \in {"0.95", "0.5"}}
    \cup {Response(f, "json_object", id, "0.95") :
            f \in {"stripped", "kept"}, id \in AnsweredIds(database)}
    \cup {Response("none", "text", id, "None") : id \in AnsweredIds(database)}
    \cup {Response("none", "json_other", MissingKey, "None"),
          Response("stripped", "text", MissingKey, "None")}

\* Lines 580-586: the description of the first entry with the matched id.
LookUpDescription(matched_id, database) ==
    LET hits == {i \in 1..Len(database) : database[i].product_id = matched_id}
    IN  IF matched_id = NO_MATCH \/ hits = {} THEN "None"
        ELSE database[CHOOSE i \in hits : \A j \in hits : i <= j].description

\* Lines 567-574: json.loads succeeds on the cleaned text.
JsonLoads(response) ==
    /\ response.fence \in {"none", "stripped"}
    /\ response.body \in {"json_object", "json_other"}

\* A fallback that never finds a value.
NeverRecovers(response) == FALSE

\* Line 597: r'"matched_id"\s*:\s*"([^"]+)"' finds a value in the text.
RecoversId(response) == response.matched_id \notin {MissingKey, <<>>}

\* parse_gemini_matching_response: `raised` is an exception other than
\* json.JSONDecodeError leaving the function (result.get on a non-dict).
parse_gemini_matching_response(response, database) ==
    IF JsonLoads(response) THEN
        IF response.body = "json_object" THEN
            LET matched_id == IF response.matched_id = MissingKey
                                THEN NO_MATCH ELSE response.matched_id
            IN  [raised |-> FALSE,
                 result |-> MatchResult(matched_id, response.confidence,
                                        "model reasoning",
                                        LookUpDescription(matched_id, database))]
        ELSE [raised |-> TRUE, result |-> NoResult]
    ELSE IF RecoversId(response) THEN
        [raised |-> FALSE,
         result |-> MatchResult(response.matched_id, "None",
                                "Parsed from malformed JSON", "None")]
    ELSE
        [raised |-> FALSE,
         result |-> MatchResult(NO_MATCH, "None",
                                "Failed to parse Gemini response", "None")]

\* Lines 471-478: the except branch of match_product_with_gemini.
\* An error result that scores the failure 0.0 and drops the error text.
GeminiErrorScoredZero ==
    MatchResult(NO_MATCH, "0.0", "No match found", "None")

GeminiErrorResult ==
    MatchResult(NO_MATCH, "None", "Error calling Gemini API", "None")

ExtractedId == GetProductId(extracted_product)

NormalizedExtracted == normalize_product_id(ExtractedId)

\* A guard that never treats the identifier as missing.
IdNeverMissing == FALSE

\* `not normalized_extracted or extracted_id == 'N/A'`
IdMissingOrInvalid == NormalizedExtracted = <<>> \/ ExtractedId = NA

\* match_product_by_id returns `result`.
Return(result) ==
    /\ match_result' = result
    /\ mpc' = "returned"

\* match_product_by_id calls match_product_with_gemini on `database`.
CallGemini(database) ==
    /\ ai_call' = PendingCall(database)
    /\ mpc' = "gemini"
    /\ UNCHANGED match_result

\* The candidate loop ran over the whole catalog.
RunCandidateLoop ==
    /\ matching_products' = MatchingProducts(NormalizedExtracted,
                                             reference_database)
    /\ compared' = 1..Len(reference_database)

\* Lines 321-327.
EmptyDatabase ==
    /\ mpc = "start"
    /\ reference_database = <<>>
    /\ Return(MatchResult(NO_MATCH, "0.0", "Reference database is empty",
                          "None"))
    /\ UNCHANGED <<extracted_product, reference_database, use_ai_fallback,
                   GEMINI_API_KEY, entry_point, matching_products, compared,
                   ai_call>>
    /\ UNCHANGED <<pdfVars, batchVars, callVars, sessionVars>>

\* Lines 334-337.
MissingIdCallsGemini ==
    /\ mpc = "start"
    /\ reference_database # <<>>
    /\ IdMissingOrInvalid
    /\ use_ai_fallback
    /\ CallGemini(reference_database)
    /\ UNCHANGED <<extracted_product, reference_database, use_ai_fallback,
                   GEMINI_API_KEY, entry_point, matching_products, compared>>
    /\ UNCHANGED <<pdfVars, batchVars, callVars, sessionVars>>

\* Lines 338-344.
MissingIdNoFallback ==
    /\ mpc = "start"
    /\ reference_database # <<>>
    /\ IdMissingOrInvalid
    /\ ~use_ai_fallback
    /\ Return(MatchResult(NO_MATCH, "0.0", "Invalid extracted product ID",
                          "None"))
    /\ UNCHANGED <<extracted_product, reference_database, use_ai_fallback,
                   GEMINI_API_KEY, entry_point, matching_products, compared,
                   ai_call>>
    /\ UNCHANGED <<pdfVars, batchVars, callVars, sessionVars>>

Deterministic ==
    /\ mpc = "start"
    /\ reference_database # <<>>
    /\ ~IdMissingOrInvalid
    /\ RunCandidateLoop

\* Lines 350-369.
NoCandidate ==
    /\ Deterministic
    /\ matching_products' = <<>>
    /\ Return(MatchResult(NO_MATCH, "0.0", "No match found", "None"))
    /\ UNCHANGED <<extracted_product, reference_database, use_ai_fallback,
                   GEMINI_API_KEY, entry_point, ai_call>>
    /\ UNCHANGED <<pdfVars, batchVars, callVars, sessionVars>>

\* Lines 350-360, 372-379.
SingleCandidate ==
    /\ Deterministic
    /\ Len(matching_products') = 1
    /\ Return(MatchResult(matching_products'[1].product_id, "1.0", "ID match",
                          matching_products'[1].description))
    /\ UNCHANGED <<extracted_product, reference_database, use_ai_fallback,
                   GEMINI_API_KEY, entry_point, ai_call>>
    /\ UNCHANGED <<pdfVars, batchVars, callVars, sessionVars>>

\* Lines 350-360, 383-392.
SimplestCandidate ==
    /\ Deterministic
    /\ Len(matching_products') > 1
    /\ LET simplest_match == select_simplest_product_id(matching_products')
       IN  /\ simplest_match # NoProduct
           /\ Return(MatchResult(simplest_match.product_id, "1.0",
                                 "ID match (simplest)",
                                 simplest_match.description))
    /\ UNCHANGED <<extracted_product, reference_database, use_ai_fallback,
                   GEMINI_API_KEY, entry_point, ai_call>>
    /\ UNCHANGED <<pdfVars, batchVars, callVars, sessionVars>>

\* Lines 350-360, 383, 395-403.
ShortIdCallsGemini ==
    /\ Deterministic
    /\ Len(matching_products') > 1
    /\ select_simplest_product_id(matching_products') = NoProduct
    /\ IsShortId(NormalizedExtracted) /\ use_ai_fallback
    /\ CallGemini(matching_products')
    /\ UNCHANGED <<extracted_product, reference_database, use_ai_fallback,
                   GEMINI_API_KEY, entry_point>>
    /\ UNCHANGED <<pdfVars, batchVars, callVars, sessionVars>>

\* Lines 350-360, 383, 395, 404-412.
FirstCandidateAtReducedConfidence ==
    /\ Deterministic
    /\ Len(matching_products') > 1
    /\ select_simplest_product_id(matching_products') = NoProduct
    /\ ~(IsShortId(NormalizedExtracted) /\ use_ai_fallback)
    /\ Return(MatchResult(matching_products'[1].product_id, "0.9",
                          "ID match (multiple candidates)",
                          matching_products'[1].description))
    /\ UNCHANGED <<extracted_product, reference_database, use_ai_fallback,
                   GEMINI_API_KEY, entry_point, ai_call>>
    /\ UNCHANGED <<pdfVars, batchVars, callVars, sessionVars>>

\* match_product_with_gemini ends: by returning `result` (which
\* match_product_by_id returns unchanged), or by raising (which
\* match_product_by_id does not catch).
GeminiEnds(outcome, response, result) ==
    /\ ai_call' = [ai_call EXCEPT
                     !.outcome = outcome, !.response = response,
                     !.result = result,
                     !.offered = IF response = NoResponse THEN <<>>
                                 ELSE limited_db(ai_call.database)]
    /\ match_result' = result
    /\ mpc' = outcome
    /\ UNCHANGED <<extracted_product, reference_database, use_ai_fallback,
                   GEMINI_API_KEY, entry_point, matching_products, compared>>
    /\ UNCHANGED <<pdfVars, batchVars, callVars, sessionVars>>

\* Lines 441-442.
GeminiNotConfigured ==
    /\ mpc = "gemini"
    /\ ~GEMINI_API_KEY
    /\ GeminiEnds("raised", NoResponse, NoResult)

\* Lines 445-451.
GeminiEmptyDatabase ==
    /\ mpc = "gemini"
    /\ GEMINI_API_KEY
    /\ ai_call.database = <<>>
    /\ GeminiEnds("returned", NoResponse,
                  MatchResult(NO_MATCH, "None", "Reference database is empty",
                              "None"))

\* Lines 460-464, 471-478: generate_content (or response.text) raises.
GeminiServiceError ==
    /\ mpc = "gemini"
    /\ GEMINI_API_KEY
    /\ ai_call.database # <<>>
    /\ GeminiEnds("returned", ServiceError, GeminiErrorResult)

\* Lines 460-478: the model answers and the answer is parsed.
GeminiResponds ==
    /\ mpc = "gemini"
    /\ GEMINI_API_KEY
    /\ ai_call.database # <<>>
    /\ \E response \in Responses(ai_call.database) :
          LET parsed == parse_gemini_matching_response(response,
                                                       ai_call.database)
          IN  GeminiEnds("returned", response,
                         IF parsed.raised THEN GeminiErrorResult
                         ELSE parsed.result)


(***************************************************************************)
(* Single calls of the functions that keep no state between calls: the     *)
(* call's function and arguments are chosen at the start, and one step     *)
(* carries it out.                                                         *)
(***************************************************************************)
\* What a call has come to: `value` is what it returned.
Outcome(kind, value) == [kind |-> kind, value |-> value]

Pending == Outcome("pending", <<>>)

Returned(value) == Outcome("returned", value)

\* The call ended by raising `exception`.
Raised(exception) == Outcome("raised", exception)

\* The pending call ends with `outcome`.
Ends(outcome) ==
    /\ call_outcome = Pending
    /\ call_outcome' = outcome
    /\ UNCHANGED <<callee, call_args>>
    /\ UNCHANGED <<pdfVars, batchVars, matchVars, sessionVars>>

\* str.endswith
EndsWith(s, suffix) ==
    /\ Len(s) >= Len(suffix)
    /\ SubSeq(s, Len(s) - Len(suffix) + 1, Len(s)) = suffix

\* ---- ai_matcher.load_reference_database ---------------------------------
\* Values of the product-code cell of a sheet row; PyNone is an empty cell.
SheetCodes ==
    {PyNone,
     <<"K", "0", "0", "2", "0", "1", "9", "-", "0", "1">>,
     <<"K", "0", "0", "2", "0", "1", "9", "-", "0", "1", "S", "P">>,
     <<"K", "0", "0", "2", "0", "1", "9", "-", "0", "1", "-", "S", "P">>,
     <<"Z", "T", "B", "D", "1", "9">>,
     <<"T", "E", "M", "P", "G", "L", "E", "N", "1", "9">>,
     <<" ", "1", "9", "S", "P", " ">>,
     <<"1", "9", "s", "p">>,
     <<"S", "P", "1", "9">>,
     <<"1", "9">>,
     <<>>}

\* Values of the product-name cell.
SheetNames == {PyNone, <<"B", "E", "E", "F", " ">>}

SheetRows == [product_code : SheetCodes, product_name : SheetNames]

\* The workbook at `filepath`: whether the file exists, whether row 1 names
\* a product-name and a product-code column, and the rows from row 2 on.
Workbooks ==
    [found : {TRUE}, columns : {TRUE}, rows : SeqsUpTo(SheetRows, MaxSheetRows)]
    \cup [found : BOOLEAN, columns : BOOLEAN, rows : {<<>>}]

\* `if product_code and product_name`
Truthy(cell) == cell # PyNone /\ cell # <<>>

\* A filter that knows the hyphenated promotional suffix only.
SkipsHyphenSPOnly(product_id_str) ==
    EndsWith(product_id_str, <<"-", "S", "P">>)

\* Lines 73-82: the three `continue`.
SkipsProduct(product_id_str) ==
    \/ EndsWith(product_id_str, <<"S", "P">>)
    \/ EndsWith(product_id_str, <<"-", "S", "P">>)
    \/ StartsWith(product_id_str, <<"Z", "T", "B", "D">>)
    \/ StartsWith(product_id_str, <<"T", "E", "M", "P", "G", "L", "E", "N">>)

\* Lines 65-88: the loop over the rows.
RECURSIVE reference_products(_)
reference_products(rows) ==
    IF rows = <<>> THEN <<>>
    ELSE LET rest == reference_products(SubSeq(rows, 1, Len(rows) - 1))
             row == rows[Len(rows)]
             product_id_str == Strip(row.product_code)
         IN  IF /\ Truthy(row.product_code)
                /\ Truthy(row.product_name)
                /\ ~SkipsProduct(product_id_str)
               THEN Append(rest, [product_id |-> product_id_str,
                                  description |-> Strip(row.product_name)])
               ELSE rest

\* Lines 42-103; every exception of the try block leaves as a ValueError.
load_reference_database(workbook) ==
    IF ~workbook.found THEN Raised("FileNotFoundError")
    ELSE IF ~workbook.columns THEN Raised("ValueError")
    ELSE IF reference_products(workbook.rows) = <<>>
      THEN Raised("ValueError")
    ELSE Returned(reference_products(workbook.rows))

LoadReferenceDatabase ==
    /\ callee = "load_reference_database"
    /\ Ends(load_reference_database(call_args))


\* ---- ai_matcher.normalize_product_id, called on its own -----------------
\* Characters of the identifiers enumerated in full.
IdAlphabet == {"0", "1", "-", "A"}

\* None, the identifiers of the docstring, sentinel spellings and strings
\* without a digit, and every string over IdAlphabet up to MaxIdLen.
Identifiers ==
    {PyNone,
     <<"Z", "1", "5", "6", "1", "7", "1">>,
     <<"G", "0", "0", "1", "5", "0", "5", "0", "1", "9", "4">>,
     <<"K", "0", "0", "2", "0", "1", "3", "-", "0", "1">>,
     <<"1", "5", "6", "1", "7", "1", "-", "0", "1">>,
     <<"1", "5", "6", "1", "7", "1", "A">>,
     <<"K", "0", "0", "2", "0", "1", "3", "-", "0", "1", "S", "P">>,
     <<"K", "0", "0", "2", "0", "1", "3", "-", "0", "1", "-", "S", "P">>,
     <<"K", "0", "0", "2", "0", "0", "0", "-", "0", "1">>,
     <<"1", "2", "-", "3", "4", "-", "5", "6">>,
     <<"1", "5", "6", "1", "7", "1", "-", "1", "2", "3">>,
     <<"Z", "1", "5", "6", "1", "7", "1", "-", "0", "1", "B">>,
     <<"N", "/", "A">>,
     <<"n", "/", "a">>,
     <<"N", "/", "a">>,
     <<" ", "N", "/", "A", " ">>,
     <<"A", "B", "C">>,
     <<"a", "b", "c">>,
     <<"-">>,
     <<" ">>,
     <<"T", "B", "D">>}
    \cup SeqsUpTo(IdAlphabet, MaxIdLen)

NormalizeProductId ==
    /\ callee = "normalize_product_id"
    /\ Ends(Returned(normalize_product_id(call_args)))


\* ---- vendors/*.py: the parsers of the registry that are in the source ----
\* VENDOR_PARSERS (vendors/__init__.py), as far as its modules are
\* present: the vendor codes, 'unknown' being GenericParser.
VENDOR_PARSERS ==
    {"rw_zant", "glen_rose", "kruse_sons", "quirch_foods", "purcell",
     "la_poultry", "apsic_wholesale", "delmar_cow", "gladway", "unknown"}

\* `not product_id`
Falsy(value) == value = PyNone \/ value = <<>>

IsAlnum(c) ==
    \/ IsDigit(c)
    \/ IsUpper(c)
    \/ \E i \in DOMAIN LowerLetters : LowerLetters[i] = c

\* str.isdigit()
IsDigitString(s) == s # <<>> /\ AllDigits(s, 1, Len(s))

\* r'^\d{a,b}-\d{c,d}$'
HyphenatedDigits(s, a, b, c, d) ==
    \E h \in 1..Len(s) :
        /\ s[h] = "-"
        /\ h - 1 \in a..b /\ AllDigits(s, 1, h - 1)
        /\ Len(s) - h \in c..d /\ AllDigits(s, h + 1, Len(s))

\* r'^[A-Za-z0-9\-]{3,15}$'
AlnumHyphen3To15(s) ==
    /\ Len(s) \in 3..15
    /\ \A k \in 1..Len(s) : IsAlnum(s[k]) \/ s[k] = "-"

\* `product_id.upper() in ['N/A', 'NA', '-']`
UpperIsSentinel(product_id) ==
    Upper(product_id) \in {NA, <<"N", "A">>, <<"-">>}

\* validate_product_id of the vendor's parser class.
validate_product_id(vendor_code, product_id) ==
    CASE vendor_code = "rw_zant" ->
            /\ ~Falsy(product_id)
            /\ IsDigitString(product_id)
            /\ Len(product_id) <= 6
      [] vendor_code = "kruse_sons" ->
            /\ ~Falsy(product_id)
            /\ \/ UpperIsSentinel(product_id)
               \/ IsDigitString(product_id) /\ Len(product_id) \in 1..3
      [] vendor_code = "glen_rose" ->
            /\ ~Falsy(product_id)
            /\ \/ UpperIsSentinel(product_id)
               \/ HyphenatedDigits(product_id, 8, 11, 2, 3)
               \/ HyphenatedDigits(product_id, 6, 10, 1, 3)
               \/ IsDigitString(product_id) /\ Len(product_id) \in 6..11
      [] vendor_code = "quirch_foods" ->
            /\ ~Falsy(product_id)
            /\ \/ UpperIsSentinel(product_id)
               \/ IsDigitString(product_id) /\ Len(product_id) = 10
               \/ IsDigitString(product_id) /\ Len(product_id) = 6
               \/ IsDigitString(product_id) /\ Len(product_id) \in 7..9
      [] vendor_code \in {"purcell", "la_poultry"} ->
            /\ ~Falsy(product_id)
            /\ UpperIsSentinel(product_id) \/ AlnumHyphen3To15(product_id)
      [] vendor_code \in {"apsic_wholesale", "gladway"} ->
            \/ Falsy(product_id) \/ product_id = NA
            \/ AlnumHyphen3To15(product_id)
      [] vendor_code = "delmar_cow" ->
            \/ Falsy(product_id) \/ product_id = NA
            \/ HyphenatedDigits(product_id, 6, 6, 2, 2)
            \/ AlnumHyphen3To15(product_id)
      [] OTHER ->
            /\ ~Falsy(product_id)
            /\ Len(Strip(product_id)) <= 20
            /\ \E k \in 1..Len(Strip(product_id)) :
                  IsAlnum(Strip(product_id)[k])


\* \w
IsWordChar(c) == IsAlnum(c) \/ c = "_"

\* Length of the digit run `text` starts with.
LeadingDigits(text) ==
    IF text = <<>> \/ ~IsDigit(text[1]) THEN 0 ELSE RunEnd(text, 1)

\* `sub in s`
Contains(s, sub) ==
    \E k \in 0..(Len(s) - Len(sub)) : SubSeq(s, k + 1, k + Len(sub)) = sub

\* re.sub(r'\s+', ' ', s).strip()
RECURSIVE CollapseSpaces(_)
CollapseSpaces(s) ==
    IF \E k \in 1..(Len(s) - 1) : s[k] = " " /\ s[k + 1] = " "
      THEN LET k == CHOOSE k \in 1..(Len(s) - 1) : s[k] = " " /\ s[k + 1] = " "
           IN  CollapseSpaces(SubSeq(s, 1, k) \o SubSeq(s, k + 2, Len(s)))
      ELSE Strip(s)

\* int() of a digit string.
RECURSIVE ToNat(_)
ToNat(digits) ==
    IF digits = <<>> THEN 0
    ELSE 10 * ToNat(SubSeq(digits, 1, Len(digits) - 1))
           + (CHOOSE n \in 0..9 :
                 <<"0", "1", "2", "3", "4", "5", "6", "7", "8", "9">>[n + 1]
                   = digits[Len(digits)])

\* A price read from a cost cell: the digits before the point, and the two
\* after it ('00' when there is no point); NoPrice when none was found.
NoPrice == [whole |-> <<>>, cents |-> <<>>]

\* `\d{1,max}(?:\.\d{2})?` matched at position p of s.
PriceAt(s, p, max) ==
    LET run == RunEnd(s, p) - p + 1
        e == IF run > max THEN p + max - 1 ELSE p + run - 1
        pointed == /\ Len(s) >= e + 3
                   /\ s[e + 1] = "."
                   /\ IsDigit(s[e + 2]) /\ IsDigit(s[e + 3])
    IN  [whole |-> SubSeq(s, p, e),
         cents |-> IF pointed THEN SubSeq(s, e + 2, e + 3) ELSE <<"0", "0">>]

\* A formatting that keeps one decimal place.
OneDecimal(price) == CoreDigits(price.whole) \o <<".">> \o <<price.cents[1]>>

\* f'{float(price):.2f}'
TwoDecimals(price) == CoreDigits(price.whole) \o <<".">> \o price.cents

\* r'\$\s*(\d{1,4}(?:\.\d{2})?)' searched in s.
DollarPrice(s) ==
    LET starts == {p \in 1..Len(s) :
                      /\ IsDigit(s[p])
                      /\ \E d \in 1..(p - 1) :
                            /\ s[d] = "$"
                            /\ \A k \in (d + 1)..(p - 1) : s[k] = " "}
    IN  IF starts = {} THEN NoPrice
        ELSE PriceAt(s, CHOOSE p \in starts : \A q \in starts : p <= q, 4)

\* BaseParser.clean_cost (RWZantParser inherits it).
BaseCleanCost(cost_str) ==
    LET price == DollarPrice(cost_str)
    IN  IF Falsy(cost_str) \/ ~Contains(cost_str, <<"$">>) \/ price = NoPrice
          THEN PyNone
        ELSE IF \/ ToNat(price.whole) > 1000
                \/ ToNat(price.whole) = 1000 /\ ToNat(price.cents) > 0
          THEN PyNone
        ELSE <<"$">> \o TwoDecimals(price)

\* KruseSonsParser.clean_cost: r'(\d{1,5}\.\d{2})', then r'(\d{1,5})'.
KruseCleanCost(cost_str) ==
    LET s == Upper(Strip(cost_str))
        pointed == {p \in 1..Len(s) :
                       /\ IsDigit(s[p])
                       /\ RunEnd(s, p) - p + 1 <= 5
                       /\ PriceAt(s, p, 5).whole = SubSeq(s, p, RunEnd(s, p))
                       /\ Len(s) >= RunEnd(s, p) + 3
                       /\ s[RunEnd(s, p) + 1] = "."
                       /\ IsDigit(s[RunEnd(s, p) + 2])
                       /\ IsDigit(s[RunEnd(s, p) + 3])}
        f == FirstDigit(s)
        price == IF pointed # {}
                   THEN PriceAt(s, CHOOSE p \in pointed :
                                      \A q \in pointed : p <= q, 5)
                 ELSE IF f > 0
                   THEN [whole |-> PriceAt(s, f, 5).whole,
                         cents |-> <<"0", "0">>]
                 ELSE NoPrice
    IN  IF Falsy(cost_str) \/ price = NoPrice THEN PyNone
        ELSE IF \/ ToNat(price.whole) > 9999
                \/ ToNat(price.whole) = 0 /\ ToNat(price.cents) = 0
          THEN PyNone
        ELSE <<"$">> \o TwoDecimals(price) \o <<"/", "L", "B">>

\* GlenRoseParser.clean_cost, line 111.
skip_words ==
    {<<"F", "R", "O", "Z", "E", "N">>,
     <<"O", "U", "T">>,
     <<"P", "R", "A", "W", "N">>,
     <<"B", "R", "A", "W", "L", "E", "Y">>,
     <<"C", "E", "N", "T", "R", "A", "L">>,
     <<"V", "A", "L", "L", "E", "Y">>,
     <<"Q", "U", "A", "N">>,
     <<"G", "R", "E", "A", "T", "E", "R">>,
     <<"O", "M", "A", "H", "A">>,
     <<"J", "B", "S">>,
     <<"S", "W", "I", "F", "T">>,
     <<"R", "O", "M", "A">>,
     <<"P", "R", "I", "M", "E">>,
     <<"A", "V", "G">>,
     <<"I", "M", "P">>,
     <<"H", "P">>,
     <<"A", "S">>,
     <<"B", "O", "N", "E", "L", "E", "S", "S">>,
     <<"B", "O", "N", "E">>,
     <<"I", "N">>}

\* GlenRoseParser.clean_cost.
GlenRoseCleanCost(cost_str) ==
    LET s == Strip(cost_str)
        dollar == DollarPrice(s)
        bare == /\ s # <<>>
                /\ IsDigit(s[1])
                /\ RunEnd(s, 1) <= 4
                /\ Len(s) = RunEnd(s, 1) + 3
                /\ s[RunEnd(s, 1) + 1] = "."
                /\ IsDigit(s[Len(s) - 1]) /\ IsDigit(s[Len(s)])
    IN  IF Falsy(cost_str) THEN PyNone
        ELSE IF \E word \in skip_words : Contains(Upper(s), word) THEN PyNone
        ELSE IF Contains(s, <<"$">>) /\ dollar # NoPrice
          THEN <<"$">> \o TwoDecimals(dollar)
        ELSE IF bare /\ ~(ToNat(PriceAt(s, 1, 4).whole) = 0
                          /\ ToNat(PriceAt(s, 1, 4).cents) = 0)
          THEN <<"$">> \o TwoDecimals(PriceAt(s, 1, 4))
        ELSE PyNone


\* r'(\d{1,5}\.\d{2})' matches at position p of s.
PointedAt(s, p) ==
    /\ IsDigit(s[p])
    /\ RunEnd(s, p) - p + 1 <= 5
    /\ Len(s) >= RunEnd(s, p) + 3
    /\ s[RunEnd(s, p) + 1] = "."
    /\ IsDigit(s[RunEnd(s, p) + 2])
    /\ IsDigit(s[RunEnd(s, p) + 3])

\* PurcellParser.clean_cost.
PurcellCleanCost(cost_str) ==
    LET f == FirstDigit(cost_str)
        price == PriceAt(cost_str, f, 5)
    IN  IF Falsy(cost_str) THEN PyNone
        ELSE IF Upper(cost_str) \in {<<"O", "U", "T">>,
                                     <<"Q", "U", "O", "T", "E">>,
                                     NA, <<"T", "B", "D">>}
          THEN Upper(cost_str)
        ELSE IF f = 0 THEN PyNone
        ELSE IF \/ ToNat(price.whole) > 1000
                \/ ToNat(price.whole) = 1000 /\ ToNat(price.cents) > 0
          THEN PyNone
        ELSE <<"$">> \o TwoDecimals(price)

\* QuirchFoodsParser.clean_cost: r'\$\s*(\d{1,5}\.\d{2})', then
\* r'(\d{1,5}\.\d{2})'.
QuirchCleanCost(cost_str) ==
    LET s == Strip(cost_str)
        dollar == {p \in 1..Len(s) :
                      /\ PointedAt(s, p)
                      /\ \E d \in 1..(p - 1) :
                            /\ s[d] = "$"
                            /\ \A k \in (d + 1)..(p - 1) : s[k] = " "}
        bare == {p \in 1..Len(s) : PointedAt(s, p)}
        first(starts) == CHOOSE p \in starts : \A q \in starts : p <= q
        price == PriceAt(s, first(IF dollar # {} THEN dollar ELSE bare), 5)
    IN  IF Falsy(cost_str) \/ bare = {} THEN PyNone
        ELSE IF \/ ToNat(price.whole) > 9999
                \/ ToNat(price.whole) = 0 /\ ToNat(price.cents) = 0
          THEN PyNone
        ELSE <<"$">> \o TwoDecimals(price)

\* gemini_parser.clean_cost:
\* r'(\$?\s*\d{1,5}(?:\.\d{2})?)\s*(/LB|/CS|/EA)?', range 0.01 to 99999.99.
GeminiCleanCost(cost_str) ==
    LET s == Upper(Strip(cost_str))
        f == FirstDigit(s)
        price == PriceAt(s, f, 5)
        e == f + Len(price.whole) - 1
        end == IF /\ Len(s) >= e + 3
                  /\ s[e + 1] = "."
                  /\ IsDigit(s[e + 2]) /\ IsDigit(s[e + 3])
                 THEN e + 3 ELSE e
        rest == LStrip(SubSeq(s, end + 1, Len(s)))
        unit_part == IF \E unit \in {<<"/", "L", "B">>, <<"/", "C", "S">>,
                                      <<"/", "E", "A">>} :
                            StartsWith(rest, unit)
                       THEN SubSeq(rest, 1, 3) ELSE <<>>
    IN  IF s \in {<<"O", "U", "T">>,
                  <<"O", "U", "T", " ", "O", "F", " ", "S", "T", "O", "C",
                    "K">>}
          THEN <<"O", "U", "T", " ", "O", "F", " ", "S", "T", "O", "C", "K">>
        ELSE IF s \in {<<"Q", "U", "O", "T", "E">>,
                       <<"Q", "U", "O", "T", "E", " ", "R", "E", "Q", "U", "I",
                         "R", "E", "D">>}
          THEN <<"Q", "U", "O", "T", "E", " ", "R", "E", "Q", "U", "I", "R",
                 "E", "D">>
        ELSE IF f = 0 THEN PyNone
        ELSE IF ToNat(price.whole) = 0 /\ ToNat(price.cents) = 0 THEN PyNone
        ELSE <<"$">> \o TwoDecimals(price) \o unit_part

\* pdf_processor.clean_cost.
ProcessorCleanCost(cost_str) ==
    IF Falsy(cost_str) THEN PyNone ELSE BaseCleanCost(Strip(cost_str))

clean_cost(vendor_code, cost_str) ==
    CASE vendor_code = "kruse_sons" -> KruseCleanCost(cost_str)
      [] vendor_code = "glen_rose" -> GlenRoseCleanCost(cost_str)
      [] vendor_code = "purcell" -> PurcellCleanCost(cost_str)
      [] vendor_code = "quirch_foods" -> QuirchCleanCost(cost_str)
      [] OTHER -> BaseCleanCost(cost_str)

\* The implementations of clean_cost: the parser classes', the AI
\* extractor's and pdf_processor's.
CostCleaners == VENDOR_PARSERS \cup {"gemini_parser", "pdf_processor"}

CleanCostOf(cleaner, cost_str) ==
    CASE cleaner = "gemini_parser" -> GeminiCleanCost(cost_str)
      [] cleaner = "pdf_processor" -> ProcessorCleanCost(cost_str)
      [] OTHER -> clean_cost(cleaner, cost_str)

\* BaseParser.is_valid_description, and KruseSonsParser's, which also
\* turns category headers ('**') away.
is_valid_description(vendor_code, description) ==
    /\ ~Falsy(description)
    /\ vendor_code = "kruse_sons"
          => ~StartsWith(Strip(description), <<"*", "*">>)
    /\ Cardinality({k \in 1..Len(description) :
                       IsAlnum(description[k]) /\ ~IsDigit(description[k])})
          >= 2

\* extract_product_id returns (product_id, remaining_text).
Extracted(product_id, remaining) ==
    [product_id |-> product_id, remaining |-> remaining]

\* r'^(\d{a,b}-\d{c,d})\b' matches `text`: the length of the match, or 0.
HyphenatedPrefix(text, a, b, c, d) ==
    LET n == LeadingDigits(text)
        m == IF Len(text) >= n + 2 /\ text[n + 1] = "-"
                  /\ IsDigit(text[n + 2])
               THEN RunEnd(text, n + 2) - (n + 1) ELSE 0
    IN  IF /\ n \in a..b
           /\ m \in c..d
           /\ (n + 1 + m = Len(text) \/ ~IsWordChar(text[n + 2 + m]))
          THEN n + 1 + m ELSE 0

extract_product_id(vendor_code, raw_text) ==
    LET text == Strip(raw_text)
        n == LeadingDigits(text)
        after(k) == Strip(SubSeq(text, k + 1, Len(text)))
        h1 == HyphenatedPrefix(text, 8, 11, 2, 3)
        h2 == HyphenatedPrefix(text, 6, 10, 1, 3)
    IN  CASE vendor_code = "rw_zant" ->
                IF n = 0 THEN Extracted(PyNone, text)
                ELSE IF n > 6
                  THEN Extracted(SubSeq(text, 1, 6),
                                 SubSeq(text, 7, n) \o <<" ">> \o after(n))
                ELSE Extracted(SubSeq(text, 1, n), after(n))
          [] vendor_code = "kruse_sons" ->
                IF n \in 1..3 /\ (n = Len(text) \/ ~IsWordChar(text[n + 1]))
                  THEN Extracted(SubSeq(text, 1, n), after(n))
                  ELSE Extracted(PyNone, text)
          [] OTHER ->
                IF h1 > 0 THEN Extracted(SubSeq(text, 1, h1), after(h1))
                ELSE IF h2 > 0 THEN Extracted(SubSeq(text, 1, h2), after(h2))
                ELSE IF n = 0 THEN Extracted(PyNone, text)
                ELSE IF n >= 11
                  THEN Extracted(SubSeq(text, 1, 9) \o <<"-">>
                                     \o SubSeq(text, 10, 11),
                                 IF n > 11
                                   THEN SubSeq(text, 12, n) \o <<" ">>
                                           \o after(n)
                                   ELSE after(n))
                ELSE Extracted(SubSeq(text, 1, n), after(n))

\* Identifiers handed to validate_product_id.
ProductIds ==
    {PyNone,
     <<"N", "/", "A">>,
     <<"n", "/", "a">>,
     <<"N", "A">>,
     <<"-">>,
     <<>>,
     <<"1", "0", "3", "3", "8", "7">>,
     <<"1", "2">>,
     <<"7", "1", "1", "0", "0", "0", "0", "0", "5", "-", "0", "1">>,
     <<"3", "3", "0", "0", "2", "0", "-", "6", "1">>,
     <<"A", "B", "C", "-", "1", "2", "3">>,
     <<"A", "B">>,
     <<"1", "2", "3", "4", "5", "6", "7">>,
     <<"A", "/", "B">>}

ValidateProductId ==
    /\ callee = "validate_product_id"
    /\ Ends(Returned(validate_product_id(call_args.vendor_code,
                                         call_args.product_id)))


\* ' '.join(parts)
RECURSIVE JoinSpace(_)
JoinSpace(parts) ==
    IF parts = <<>> THEN <<>>
    ELSE IF Len(parts) = 1 THEN parts[1]
    ELSE parts[1] \o <<" ">> \o JoinSpace(Tail(parts))

\* The record a parser returns for a row or a line.
Product(product_id, description, cost) ==
    [product_id |-> product_id, description |-> description, cost |-> cost]

\* row_clean = [str(cell).strip() if cell else '' for cell in row]
row_clean(row) == [i \in 1..Len(row) |-> Strip(row[i])]

\* RWZantParser.parse_table_row.
RWZantTableRow(row) ==
    LET dollars == {i \in 1..Len(row) : Contains(row[i], <<"$">>)}
        cost_idx == CHOOSE i \in dollars : \A j \in dollars : i <= j
        raw_id == Strip(row[1])
        description_parts ==
            SelectSeq(SubSeq(row_clean(row), 2, cost_idx - 1),
                      LAMBDA cell : cell # <<>>)
        cost_cleaned == clean_cost("rw_zant", Strip(row[cost_idx]))
        extracted == extract_product_id("rw_zant", raw_id)
        description ==
            CollapseSpaces(IF extracted.remaining # <<>>
                             THEN extracted.remaining \o <<" ">>
                                     \o JoinSpace(description_parts)
                             ELSE JoinSpace(description_parts))
    IN  IF Len(row) < 3 \/ dollars = {} THEN PyNone
        ELSE IF raw_id = <<>> \/ description_parts = <<>> THEN PyNone
        ELSE IF cost_cleaned = PyNone THEN PyNone
        ELSE IF \/ Falsy(extracted.product_id)
                \/ ~validate_product_id("rw_zant", extracted.product_id)
          THEN PyNone
        ELSE IF ~is_valid_description("rw_zant", description) THEN PyNone
        ELSE Product(extracted.product_id, description, cost_cleaned)

\* KruseSonsParser.parse_table_row.
KruseSonsTableRow(row) ==
    LET cells == row_clean(row)
        raw_id == cells[1]
        description == cells[2]
        raw_price == cells[Len(cells)]
        extracted == extract_product_id("kruse_sons", raw_id)
        product_id ==
            IF raw_id = <<>> THEN NA
            ELSE IF \/ Falsy(extracted.product_id)
                    \/ ~validate_product_id("kruse_sons", extracted.product_id)
              THEN NA
            ELSE extracted.product_id
        cost_cleaned == clean_cost("kruse_sons", raw_price)
    IN  IF Len(row) < 3 THEN PyNone
        ELSE IF StartsWith(description, <<"*", "*">>) THEN PyNone
        ELSE IF FirstDigit(raw_price) = 0 THEN PyNone
        ELSE IF ~is_valid_description("kruse_sons", description) THEN PyNone
        ELSE IF cost_cleaned = PyNone THEN PyNone
        ELSE Product(product_id, description, cost_cleaned)

\* GlenRoseParser.parse_table_row.
GlenRoseTableRow(row) ==
    LET cells == row_clean(row)
        cost_cleaned == clean_cost("glen_rose", cells[Len(cells)])
        raw_id == cells[1]
        extracted == extract_product_id("glen_rose", raw_id)
        description ==
            CollapseSpaces(IF extracted.remaining # <<>>
                             THEN extracted.remaining \o <<" ">> \o cells[2]
                             ELSE cells[2])
    IN  IF Len(row) < 3 THEN PyNone
        ELSE IF cost_cleaned = PyNone THEN PyNone
        ELSE IF raw_id = <<>> THEN PyNone
        ELSE IF Falsy(extracted.product_id) THEN PyNone
        ELSE IF ~validate_product_id("glen_rose", extracted.product_id)
          THEN PyNone
        ELSE IF cells[2] = <<>> THEN PyNone
        ELSE IF ~is_valid_description("glen_rose", description) THEN PyNone
        ELSE Product(extracted.product_id, description, cost_cleaned)

\* The parsers that call self.validate_price or self.validate_description,
\* methods that neither they nor BaseParser define.
AttributeError == Raised("AttributeError")

\* The vendors whose parse_table_row is modelled: the three table parsers
\* above, the two that reach validate_price and the three that inherit
\* BaseParser.parse_table_row.
TableRowParsers ==
    {"rw_zant", "kruse_sons", "glen_rose", "apsic_wholesale", "delmar_cow",
     "gladway", "la_poultry", "unknown"}

parse_table_row(vendor_code, row) ==
    CASE vendor_code = "rw_zant" -> Returned(RWZantTableRow(row))
      [] vendor_code = "kruse_sons" -> Returned(KruseSonsTableRow(row))
      [] vendor_code = "glen_rose" -> Returned(GlenRoseTableRow(row))
      [] vendor_code \in {"apsic_wholesale", "delmar_cow"} ->
            IF Len(row) < 3 THEN Returned(PyNone) ELSE AttributeError
      [] OTHER -> Returned(PyNone)

\* \s
IsSpace(c) == c = " " \/ c = "\t"

\* len(line.split('|'))
PipeParts(line) == 1 + Cardinality({k \in 1..Len(line) : line[k] = "|"})

\* len(re.split(r'\s{2,}|\t', line)): every run of white space that is two
\* characters or longer, or a tab, separates two parts.
SpacedParts(line) ==
    1 + Cardinality({k \in 1..Len(line) :
          /\ IsSpace(line[k])
          /\ (k = 1 \/ ~IsSpace(line[k - 1]))
          /\ (line[k] = "\t" \/ (k < Len(line) /\ IsSpace(line[k + 1])))})

\* r'^\$?\d+\.\d{2}$' matches line[p..]
PriceToken(line, p) ==
    LET d == IF p <= Len(line) /\ line[p] = "$" THEN p + 1 ELSE p
    IN  /\ d <= Len(line)
        /\ IsDigit(line[d])
        /\ Len(line) = RunEnd(line, d) + 3
        /\ line[RunEnd(line, d) + 1] = "."
        /\ IsDigit(line[Len(line) - 1]) /\ IsDigit(line[Len(line)])

\* r'^([A-Za-z0-9\-]{3,15})\s+(.+?)\s+(\$?\d+\.\d{2})$' matches the line.
SpaceSeparatedFormat(line) ==
    \E i \in 3..15, p \in 1..Len(line) :
        /\ i + 3 < p
        /\ \A k \in 1..i : IsAlnum(line[k]) \/ line[k] = "-"
        /\ IsSpace(line[i + 1])
        /\ IsSpace(line[p - 1])
        /\ PriceToken(line, p)

\* The vendors whose parse_text_line is modelled.
TextLineParsers ==
    {"apsic_wholesale", "delmar_cow", "gladway", "la_poultry", "unknown"}

parse_text_line(vendor_code, line) ==
    CASE vendor_code \in {"apsic_wholesale", "delmar_cow"} ->
            IF PipeParts(line) >= 3 \/ SpaceSeparatedFormat(line)
              THEN AttributeError ELSE Returned(PyNone)
      [] vendor_code = "gladway" ->
            IF SpacedParts(line) >= 3 THEN AttributeError
            ELSE Returned(PyNone)
      [] OTHER -> Returned(PyNone)

\* Cells of the rows handed to parse_table_row.
IdCells ==
    {<<"1", "0", "3", "3", "8", "7">>,
     <<"1", "2">>,
     <<"7", "1", "1", "0", "0", "0", "0", "0", "5", "-", "0", "1">>,
     <<"A", "B", "C", "-", "1", "2", "3">>,
     <<"1", "2", "3", "4", "5", "6", "7">>,
     <<"A", "B", "C">>,
     <<"N", "/", "A">>,
     <<>>}

DescriptionCells ==
    {<<"P", "O", "R", "K", " ", "L", "O", "I", "N">>,
     <<"*", "*", "H", "A", "M", "S", "*", "*">>,
     <<"7">>,
     <<>>}

CostCells ==
    {<<"$", "2", ".", "1", "5">>,
     <<"2", ".", "1", "5">>,
     <<"C", "A", "L", "L">>,
     <<"$", "1", "5", "0", "0", ".", "0", "0">>,
     <<"1", "2", ".", "5", " ", "L", "B">>,
     <<>>}

\* Rows as pdfplumber and the OCR table pass give them: too short to hold a
\* product, and an identifier, a description, at most one further column,
\* and a price.
TableRows ==
    {<<>>} \cup {<<id>> : id \in IdCells}
      \cup {<<id, description>> : id \in IdCells, description \in {<<"P", "O", "R", "K", " ", "L", "O", "I", "N">>}}
      \cup {<<id, description, cost>> :
               id \in IdCells, description \in DescriptionCells,
               cost \in CostCells}
      \cup {<<id, description, <<"1", "0", " ", "L", "B">>, cost>> :
               id \in IdCells, description \in DescriptionCells,
               cost \in {<<"$", "2", ".", "1", "5">>, <<"2", ".", "1", "5">>}}

\* Lines handed to parse_text_line.
TextLines ==
    {<<>>,
     <<"A", "B", "C", "-", "1", "2", "3", " ", "|", " ", "C", "H", "I", "C",
       "K", "E", "N", " ", "B", "R", "E", "A", "S", "T", " ", "|", " ", "$",
       "5", ".", "9", "9">>,
     <<"A", "B", "C", "-", "1", "2", "3", " ", "|", " ", "C", "H", "I", "C",
       "K", "E", "N", " ", "B", "R", "E", "A", "S", "T">>,
     <<"A", "B", "C", "-", "1", "2", "3", " ", "C", "H", "I", "C", "K", "E",
       "N", " ", "B", "R", "E", "A", "S", "T", " ", "$", "5", ".", "9",
       "9">>,
     <<"A", "B", "C", "-", "1", "2", "3", " ", "C", "H", "I", "C", "K", "E",
       "N", " ", "B", "R", "E", "A", "S", "T", " ", "5", ".", "9", "9">>,
     <<"A", "B", " ", "C", "H", "I", "C", "K", "E", "N", " ", "$", "5", ".",
       "9", "9">>,
     <<"A", "B", "C", "-", "1", "2", "3", " ", "C", "H", "I", "C", "K", "E",
       "N">>,
     <<"P", "R", "O", "D", "U", "C", "T", " ", "I", "D">>,
     <<"A", "B", "C", "-", "1", "2", "3", " ", " ", "C", "H", "I", "C", "K",
       "E", "N", " ", "B", "R", "E", "A", "S", "T", " ", " ", "$", "5", ".",
       "9", "9">>,
     <<"A", "B", "C", "-", "1", "2", "3", "\t", "C", "H", "I", "C", "K", "E",
       "N", "\t", "$", "5", ".", "9", "9">>,
     <<"A", "B", "C", "-", "1", "2", "3", " ", " ", "C", "H", "I", "C", "K",
       "E", "N">>,
     <<"A", " ", "|", " ", "B", " ", "|", " ", "C", " ", "|", " ", "D">>,
     <<"|", "|">>,
     <<"1", "2", " ", " ", "7", " ", " ", "C", "A", "L", "L">>,
     <<" ", "\t", " ">>,
     <<"A", "B", "C", "-", "1", "2", "3", " ", "$", "5", ".", "9", "9">>,
     <<"A", "B", "C", "-", "1", "2", "3", " ", " ", "5", ".", "9", "9">>}

ParseTableRow ==
    /\ callee = "parse_table_row"
    /\ Ends(parse_table_row(call_args.vendor_code, call_args.row))

ParseTextLine ==
    /\ callee = "parse_text_line"
    /\ Ends(parse_text_line(call_args.vendor_code, call_args.line))


\* Characters of the generated cost strings.
CostAlphabet == {"$", "0", "1", ".", " "}

\* Raw cost strings: price lists' spellings (with and without '$', units,
\* sentinels, amounts at and beyond the limits) and every string over
\* CostAlphabet of up to MaxCostLen characters.
CostStrings ==
    {<<"$", "2", ".", "1", "5">>,
     <<"2", ".", "1", "5">>,
     <<"C", "A", "L", "L">>,
     <<"$", "1", "5", "0", "0", ".", "0", "0">>,
     <<"1", "2", ".", "5", " ", "L", "B">>,
     <<"$", " ", "9", ".", "5">>,
     <<"$", "1", "2", "3", "4", "5", ".", "6", "7">>,
     <<"$", "0", ".", "0", "0">>,
     <<"$", "1", "0", "0", "0", ".", "0", "0">>,
     <<"$", "1", "0", "0", "0", ".", "0", "1">>,
     <<"9", "9", "9", "9", "9">>,
     <<"1", "0", "0", "0", "0", ".", "0", "0">>,
     <<" ", "6", ".", "2", "0", " ">>,
     <<"$", "9", "9", "9", "9", ".", "9", "9">>,
     <<"1", "2", "3", "4", "5", "6", ".", "7", "8">>,
     <<"0", ".", "0", "1">>,
     <<"$", "4", ".", "9", "9", "/", "L", "B">>,
     <<"$", "2", "9", ".", "0", "0", "/", "C", "S">>,
     <<"4", ".", "9", "9", " ", "/", "e", "a">>,
     <<"O", "U", "T">>,
     <<"Q", "U", "O", "T", "E">>,
     <<"N", "/", "A">>,
     <<"$", "0", ".", "5", "0", "/", "L", "B">>,
     <<"$", "1", "0", "0", "0", "0", "0", ".", "5", "0">>,
     <<"$", "1", "0", "0", "0", "0", ".", "0", "0">>,
     <<"$", "9", "9", "9", "9", "9", ".", "9", "9">>,
     <<"$", "0", ".", "0", "1">>,
     <<"$", "0">>,
     <<"1", ".", "0", "0", " ", "$", "2", ".", "0", "0">>,
     <<"$", "5", "/", "E", "A">>,
     <<"$", "1", "0", "0", "0">>,
     <<"1", "0", "0", "1">>,
     <<"2", ".", "1", "5", "L", "B">>,
     <<"F", "R", "O", "Z", "E", "N", " ", "2", ".", "1", "5">>}
      \cup SeqsUpTo(CostAlphabet, MaxCostLen)

\* One call of clean_cost.
CleanCost ==
    /\ callee = "clean_cost"
    /\ ~call_args.formatted
    /\ Ends(Returned(CleanCostOf(call_args.cleaner, call_args.cost_str)))

\* A '$' amount clean_cost returned, as against None and the sentinels.
IsFormattedAmount(value) == value # PyNone /\ value[1] = "$"

\* The formatted amount is handed to the same clean_cost again.
CleanCostAgain ==
    /\ callee = "clean_cost"
    /\ ~call_args.formatted
    /\ call_outcome.kind = "returned"
    /\ IsFormattedAmount(call_outcome.value)
    /\ call_args' = [call_args EXCEPT !.cost_str = call_outcome.value,
                                      !.formatted = TRUE]
    /\ call_outcome' = Returned(CleanCostOf(call_args.cleaner,
                                            call_outcome.value))
    /\ UNCHANGED callee
    /\ UNCHANGED <<pdfVars, batchVars, matchVars, sessionVars>>


(***************************************************************************)
(* vendors/quirch_foods.py and gemini_parser.clean_product_data: the       *)
(* description of a Quirch Foods record.                                   *)
(***************************************************************************)
LowerChar(c) ==
    IF \E i \in DOMAIN UpperLetters : UpperLetters[i] = c
      THEN LowerLetters[CHOOSE i \in DOMAIN UpperLetters : UpperLetters[i] = c]
      ELSE c

Lower(s) == [i \in 1..Len(s) |-> LowerChar(s[i])]

\* str.find, counted from 1: the first position of sub in s, 0 for -1.
Find(s, sub) ==
    IF Contains(s, sub)
      THEN CHOOSE k \in 1..Len(s) :
              /\ SubSeq(s, k, k + Len(sub) - 1) = sub
              /\ \A j \in 1..(k - 1) : SubSeq(s, j, j + Len(sub) - 1) # sub
      ELSE 0

\* valid_prefixes = ['frzn', 'fsh', 'chkn', 'misc', 'prep']
valid_prefixes ==
    <<<<"f", "r", "z", "n">>, <<"f", "s", "h">>, <<"c", "h", "k", "n">>,
      <<"m", "i", "s", "c">>, <<"p", "r", "e", "p">>>>

\* The prefixes (by their place in valid_prefixes) that occur in the text.
PrefixesIn(text) ==
    {i \in DOMAIN valid_prefixes : Find(Lower(text), valid_prefixes[i]) # 0}

\* A search that takes the prefix that occurs first in the text.
EarliestPrefix(text) ==
    CHOOSE i \in PrefixesIn(text) :
       \A j \in PrefixesIn(text) :
          Find(Lower(text), valid_prefixes[i])
             <= Find(Lower(text), valid_prefixes[j])

\* `for prefix in valid_prefixes: ... find(prefix) ... break`: the prefix
\* that comes first in valid_prefixes among those that occur in the text.
FirstListedPrefix(text) ==
    CHOOSE i \in PrefixesIn(text) : \A j \in PrefixesIn(text) : i <= j

\* `description_raw[prefix_pos:].strip()`, None when no prefix occurs.
FromListedPrefix(text) ==
    IF PrefixesIn(text) = {} THEN PyNone
    ELSE Strip(SubSeq(text,
                      Find(Lower(text), valid_prefixes[FirstListedPrefix(text)]),
                      Len(text)))

IsLetter(c) == IsAlnum(c) /\ ~IsDigit(c)

\* QuirchFoodsParser.is_valid_description.
quirch_is_valid_description(description) ==
    /\ ~Falsy(description)
    /\ Cardinality({k \in 1..Len(description) : IsLetter(description[k])}) >= 3
    /\ \E i \in DOMAIN valid_prefixes :
          StartsWith(Strip(Lower(description)), valid_prefixes[i])

\* QuirchFoodsParser.parse_text_line on a line whose item number and price
\* are valid: the description of the returned record, None when the line
\* is dropped.  description_raw is group 2 of the line pattern, stripped.
quirch_text_line_description(description_raw) ==
    LET description == FromListedPrefix(description_raw)
    IN  IF Falsy(description) THEN PyNone
        ELSE IF ~quirch_is_valid_description(description) THEN PyNone
        ELSE CollapseSpaces(description)

\* QuirchFoodsParser.parse_table_row on a row [item number, cell, total]
\* whose item number and total are valid: the description of the returned
\* record, None when the row is dropped.
quirch_table_row_description(cell) ==
    LET stripped == Strip(cell)
        description ==
           IF stripped # <<>> /\ ~StartsWith(stripped, <<"$">>)
                 /\ Len(stripped) > 3
             THEN FromListedPrefix(stripped)
             ELSE PyNone
    IN  IF Falsy(description) THEN PyNone
        ELSE IF ~quirch_is_valid_description(description) THEN PyNone
        ELSE description

\* str.strip(chars) for one character.
RECURSIVE StripChar(_, _)
StripChar(s, c) ==
    IF s # <<>> /\ Head(s) = c THEN StripChar(Tail(s), c)
    ELSE IF s # <<>> /\ s[Len(s)] = c
      THEN StripChar(SubSeq(s, 1, Len(s) - 1), c)
    ELSE s

\* clean_product_data, lines 884-887 and 927-931, for a row whose id and
\* cost are valid: the description of the returned record, None when the
\* row is dropped.  The vendor plays no part in it.
clean_product_description(description) ==
    LET cleaned == StripChar(StripChar(Strip(description), "\""), "'")
    IN  IF cleaned = <<>> \/ Len(cleaned) < 2 THEN PyNone ELSE cleaned

\* Words of Quirch Foods descriptions: a brand, three recognized prefixes
\* and a cut.
DescriptionWords ==
    {<<"T", "y", "s", "o", "n">>, <<"F", "r", "z", "n">>,
     <<"C", "h", "k", "n">>, <<"P", "r", "e", "p">>,
     <<"W", "i", "n", "g", "s">>}

\* The raw descriptions: one to MaxWords words.
RawDescriptions ==
    {JoinSpace(words) : words \in SeqsUpTo(DescriptionWords, MaxWords) \ {<<>>}}

QuirchParseTextLine ==
    /\ callee = "quirch_foods.parse_text_line"
    /\ Ends(Returned(quirch_text_line_description(call_args.description)))

QuirchParseTableRow ==
    /\ callee = "quirch_foods.parse_table_row"
    /\ Ends(Returned(quirch_table_row_description(call_args.description)))

CleanProductData ==
    /\ callee = "clean_product_data"
    /\ Ends(Returned(clean_product_description(call_args.description)))

(***************************************************************************)
(* The specifications.                                                     *)
(***************************************************************************)
\* One document of process_single_pdf at rest (SpecBatch, SpecMatch).
PdfIdle ==
    /\ vendor = "unknown"
    /\ HAS_GEMINI = FALSE
    /\ pc = "idle"
    /\ running = "none"
    /\ attempts = <<>>
    /\ extracted_data = <<>>
    /\ existing_ids = {}
    /\ rows_read = 0
    /\ page = 1
    /\ ocr_pass = "primary"
    /\ pdf_outcome = NoOutcome
    /\ entry = NoEntry

\* The batch collector at rest (SpecPdf, SpecMatch).
BatchIdle ==
    /\ uploaded_files = <<>>
    /\ results_file = [state |-> "absent", entries |-> <<>>]
    /\ status_file = [status |-> "absent", completed |-> 0, total |-> 0]
    /\ vendor_results = <<>>
    /\ files_to_process = <<>>
    /\ tasks = <<>>
    /\ done_queue = <<>>
    /\ bpc = "idle"

\* The matcher at rest (SpecPdf, SpecBatch).
MatchIdle ==
    /\ extracted_product = [product_id |-> MissingKey, description |-> "None"]
    /\ reference_database = <<>>
    /\ use_ai_fallback = FALSE
    /\ GEMINI_API_KEY = FALSE
    /\ entry_point = "none"
    /\ mpc = "idle"
    /\ matching_products = <<>>
    /\ compared = {}
    /\ ai_call = NoAiCall
    /\ match_result = NoResult

\* No single function call under way (SpecPdf, SpecBatch, SpecMatch).
CallIdle ==
    /\ callee = "none"
    /\ call_args = <<>>
    /\ call_outcome = Pending

\* No executor at work.
NoPool == [queued |-> 0, running |-> 0, finished |-> 0]

\* No second run of process_pdfs_background.
NoOtherRun ==
    [pc |-> "none", uploaded_files |-> <<>>, vendor_results |-> <<>>,
     files_to_process |-> <<>>, collected |-> {}]

\* One thread at most, and no executor of its own (every specification but
\* SpecPool and SpecSession).
SessionIdle ==
    /\ pool = NoPool
    /\ other_run = NoOtherRun
    /\ session_files = <<>>

InitPdf ==
    /\ BatchIdle
    /\ MatchIdle
    /\ CallIdle
    /\ vendor \in VENDOR_CONFIGS
    /\ HAS_GEMINI \in BOOLEAN
    /\ pc = "gemini"
    /\ running = "none"
    /\ attempts = <<>>
    /\ extracted_data = <<>>
    /\ existing_ids = {}
    /\ rows_read = 0
    /\ page = 1
    /\ ocr_pass = "primary"
    /\ pdf_outcome = NoOutcome
    /\ entry = NoEntry
    /\ SessionIdle

NextPdf ==
    \/ GeminiBlock \/ GeminiRow \/ GeminiReturn \/ GeminiRaise
    \/ GlenRoseBlock \/ KruseSonsBlock \/ QuirchFoodsBlock
    \/ GeminiFallbackBlock
    \/ StructuredLine \/ StructuredReturn \/ StructuredRaise
    \/ TextBlock \/ TextItem \/ TextReturn \/ TextRaise
    \/ OcrBlock \/ OcrPrimaryRow \/ OcrAltSnapshot \/ OcrAltRow \/ OcrNextPage
    \/ OcrReturn \/ OcrRaise
    \/ ProcessSinglePdf

SpecPdf == InitPdf /\ [][NextPdf]_vars

\* The session folder when the thread starts: results.json is absent,
\* unreadable, or holds the entries an earlier run of the session wrote.
InitBatch ==
    /\ PdfIdle
    /\ MatchIdle
    /\ CallIdle
    /\ uploaded_files \in SeqsUpTo(FileNames, MaxFiles) \ {<<>>}
    /\ results_file \in
          {[state |-> "absent", entries |-> <<>>],
           [state |-> "corrupt", entries |-> <<>>]}
          \cup {[state |-> "ok", entries |-> e] :
                   e \in SeqsUpTo({ResultEntry(f, "success") : f \in FileNames},
                                  MaxPrior)}
    /\ status_file = [status |-> "absent", completed |-> 0, total |-> 0]
    /\ vendor_results = <<>>
    /\ files_to_process = <<>>
    /\ tasks = <<>>
    /\ done_queue = <<>>
    /\ bpc = "start"
    /\ SessionIdle

NextBatch ==
    \/ LoadResults \/ AllProcessed \/ SubmitAll
    \/ \E i \in 1..Len(tasks) : WorkerStart(i)
    \/ \E i \in 1..Len(tasks) : TaskReturns(i)
    \/ \E i \in 1..Len(tasks) : TaskRaises(i)
    \/ CollectSuccess \/ CollectError
    \/ FinalStatus

SpecBatch == InitBatch /\ [][NextBatch]_vars

\* Each step of the thread is eventually taken; a started extraction task
\* eventually returns or raises.
FairSpecBatch ==
    /\ SpecBatch
    /\ WF_vars(LoadResults) /\ WF_vars(AllProcessed) /\ WF_vars(SubmitAll)
    /\ \A i \in 1..MaxFiles : WF_vars(WorkerStart(i))
    /\ \A i \in 1..MaxFiles : WF_vars(TaskReturns(i) \/ TaskRaises(i))
    /\ WF_vars(CollectSuccess) /\ WF_vars(CollectError)
    /\ WF_vars(FinalStatus)

InitMatch ==
    /\ PdfIdle
    /\ BatchIdle
    /\ CallIdle
    /\ extracted_product \in [product_id : ExtractedIds,
                              description : {"SLICED BACON"}]
    /\ reference_database \in Catalogs
    /\ use_ai_fallback \in BOOLEAN
    /\ GEMINI_API_KEY \in BOOLEAN
    /\ entry_point \in {"match_product_by_id", "match_product_with_gemini"}
    /\ entry_point = "match_product_with_gemini"
          => use_ai_fallback /\ extracted_product.product_id = NA
    /\ mpc = IF entry_point = "match_product_by_id" THEN "start" ELSE "gemini"
    /\ matching_products = <<>>
    /\ compared = {}
    /\ ai_call = IF entry_point = "match_product_by_id" THEN NoAiCall
                 ELSE PendingCall(reference_database)
    /\ match_result = NoResult
    /\ SessionIdle

NextMatch ==
    \/ EmptyDatabase \/ MissingIdCallsGemini \/ MissingIdNoFallback
    \/ NoCandidate \/ SingleCandidate \/ SimplestCandidate
    \/ ShortIdCallsGemini \/ FirstCandidateAtReducedConfidence
    \/ GeminiNotConfigured \/ GeminiEmptyDatabase \/ GeminiServiceError
    \/ GeminiResponds

SpecMatch == InitMatch /\ [][NextMatch]_vars


InitLoad ==
    /\ PdfIdle
    /\ BatchIdle
    /\ MatchIdle
    /\ callee = "load_reference_database"
    /\ call_args \in Workbooks
    /\ call_outcome = Pending
    /\ SessionIdle

NextLoad == LoadReferenceDatabase

SpecLoad == InitLoad /\ [][NextLoad]_vars


InitNormalize ==
    /\ PdfIdle
    /\ BatchIdle
    /\ MatchIdle
    /\ callee = "normalize_product_id"
    /\ call_args \in Identifiers
    /\ call_outcome = Pending
    /\ SessionIdle

NextNormalize == NormalizeProductId

SpecNormalize == InitNormalize /\ [][NextNormalize]_vars

\* One call of a vendor parser's method.
InitVendor ==
    /\ callee \in {"validate_product_id", "parse_table_row", "parse_text_line"}
    /\ call_args \in
          CASE callee = "validate_product_id" ->
                  [vendor_code : VENDOR_PARSERS, product_id : ProductIds]
            [] callee = "parse_table_row" ->
                  [vendor_code : TableRowParsers, row : TableRows]
            [] OTHER ->
                  [vendor_code : TextLineParsers, line : TextLines]
    /\ call_outcome = Pending
    /\ PdfIdle
    /\ BatchIdle
    /\ MatchIdle
    /\ SessionIdle

NextVendor ==
    \/ ValidateProductId
    \/ ParseTableRow
    \/ ParseTextLine

SpecVendor == InitVendor /\ [][NextVendor]_vars

\* One call of a clean_cost, and the formatted amount passed through again.
InitCost ==
    /\ callee = "clean_cost"
    /\ call_args \in [cleaner : CostCleaners, cost_str : CostStrings,
                      formatted : {FALSE}]
    /\ call_outcome = Pending
    /\ PdfIdle
    /\ BatchIdle
    /\ MatchIdle
    /\ SessionIdle

NextCost ==
    \/ CleanCost
    \/ CleanCostAgain

SpecCost == InitCost /\ [][NextCost]_vars



\* One Quirch Foods row or line through the strategy that reads it: the
\* vendor parser's parse_text_line (Image OCR) or parse_table_row, or
\* clean_product_data (AI-assisted extraction, vendor 'quirch_foods').
InitQuirch ==
    /\ PdfIdle
    /\ BatchIdle
    /\ MatchIdle
    /\ SessionIdle
    /\ callee \in {"quirch_foods.parse_text_line",
                   "quirch_foods.parse_table_row", "clean_product_data"}
    /\ call_args \in [description : RawDescriptions]
    /\ call_outcome = Pending

NextQuirch ==
    \/ QuirchParseTextLine
    \/ QuirchParseTableRow
    \/ CleanProductData

SpecQuirch == InitQuirch /\ [][NextQuirch]_vars

(***************************************************************************)
(* SpecPool: the executor of one process_pdfs_background run, its futures  *)
(* counted by state instead of told apart, so that batches larger than    *)
(* the pool are within reach.  PoolStart is WorkerStart and PoolFinish is *)
(* TaskReturns / TaskRaises, seen through the counts.                     *)
(***************************************************************************)
\* The submit loop has queued one future per file to process.
Submitted(n) == [queued |-> n, running |-> 0, finished |-> 0]

PoolStart ==
    /\ pool.queued > 0
    /\ FreeWorker(pool.running)
    /\ pool' = [pool EXCEPT !.queued = @ - 1, !.running = @ + 1]
    /\ UNCHANGED <<other_run, session_files>>
    /\ UNCHANGED <<pdfVars, batchVars, matchVars, callVars>>

PoolFinish ==
    /\ pool.running > 0
    /\ pool' = [pool EXCEPT !.running = @ - 1, !.finished = @ + 1]
    /\ UNCHANGED <<other_run, session_files>>
    /\ UNCHANGED <<pdfVars, batchVars, matchVars, callVars>>

InitPool ==
    /\ PdfIdle
    /\ BatchIdle
    /\ MatchIdle
    /\ CallIdle
    /\ other_run = NoOtherRun
    /\ session_files = <<>>
    /\ \E n \in 1..MaxBatch : pool = Submitted(n)

NextPool ==
    \/ PoolStart
    \/ PoolFinish

SpecPool == InitPool /\ [][NextPool]_vars

(***************************************************************************)
(* SpecSession: the session's requests while process_pdfs_background is   *)
(* at work.  upload_files replaces session['uploaded_files']; results()   *)
(* starts a thread running process_pdfs_background whenever an uploaded   *)
(* file has no entry in results.json, whether or not an earlier thread of *)
(* the session is still running.  The second thread runs the same code as *)
(* the first on its own locals; its executor's tasks are not told apart,  *)
(* since only the collector writes the files: OtherCollect is a task's    *)
(* completion followed by CollectSuccess or CollectError.                 *)
(***************************************************************************)
\* upload_files, lines 301-353: the files are saved in the folder of the
\* existing session and the session's list is replaced.
UploadFiles ==
    /\ other_run.pc = "none"
    /\ \E files \in SeqsUpTo(FileNames, MaxSessionFiles) \ {<<>>} :
          /\ files # session_files
          /\ session_files' = files
    /\ UNCHANGED <<pool, other_run>>
    /\ UNCHANGED <<pdfVars, batchVars, matchVars, callVars>>

\* results(), lines 416-459: a thread is started when some uploaded file
\* has no entry in results.json.
RequestResults ==
    /\ other_run.pc = "none"
    /\ FilesNotIn(session_files,
                  IF results_file.state = "ok"
                  THEN FilenamesOf(results_file.entries) ELSE {}) # <<>>
    /\ other_run' = [NoOtherRun EXCEPT !.pc = "start",
                                       !.uploaded_files = session_files]
    /\ UNCHANGED <<pool, session_files>>
    /\ UNCHANGED <<pdfVars, batchVars, matchVars, callVars>>

\* Lines 476-490 in the second thread.
OtherLoadResults ==
    /\ other_run.pc = "start"
    /\ LET loaded == IF results_file.state = "ok"
                     THEN results_file.entries ELSE <<>>
       IN  other_run' =
              [other_run EXCEPT
                  !.pc = "loaded",
                  !.vendor_results = loaded,
                  !.files_to_process =
                      FilesNotIn(other_run.uploaded_files,
                                 FilenamesOf(loaded))]
    /\ UNCHANGED <<pool, session_files>>
    /\ UNCHANGED <<pdfVars, batchVars, matchVars, callVars>>

\* Lines 492-503 in the second thread.
OtherAllProcessed ==
    /\ other_run.pc = "loaded"
    /\ other_run.files_to_process = <<>>
    /\ status_file' = [status |-> "complete",
                       completed |-> Len(other_run.vendor_results),
                       total |-> Len(other_run.vendor_results)]
    /\ other_run' = [other_run EXCEPT !.pc = "done"]
    /\ UNCHANGED <<uploaded_files, results_file, vendor_results,
                   files_to_process, tasks, done_queue, bpc>>
    /\ UNCHANGED <<pool, session_files>>
    /\ UNCHANGED <<pdfVars, matchVars, callVars>>

\* Lines 507-522 in the second thread.
OtherSubmitAll ==
    /\ other_run.pc = "loaded"
    /\ other_run.files_to_process # <<>>
    /\ status_file' =
          [status |-> "processing",
           completed |-> Len(other_run.vendor_results),
           total |-> Len(other_run.vendor_results)
                        + Len(other_run.files_to_process)]
    /\ other_run' = [other_run EXCEPT !.pc = "collecting"]
    /\ UNCHANGED <<uploaded_files, results_file, vendor_results,
                   files_to_process, tasks, done_queue, bpc>>
    /\ UNCHANGED <<pool, session_files>>
    /\ UNCHANGED <<pdfVars, matchVars, callVars>>

\* Lines 525-558 in the second thread: one of its tasks completes, with the
\* dict process_single_pdf returned or with an exception, and its collector
\* appends the entry to its own list and rewrites results.json from it.
OtherCollect(k, outcome) ==
    /\ other_run.pc = "collecting"
    /\ k \in (1..Len(other_run.files_to_process)) \ other_run.collected
    /\ LET filename == other_run.files_to_process[k]
           results ==
              IF outcome = "raised"
              THEN CollectFailure(other_run.vendor_results, filename)
              ELSE CollectResult(other_run.vendor_results,
                                 ResultEntry(filename, outcome))
       IN  /\ other_run' = [other_run EXCEPT
                               !.vendor_results = results,
                               !.collected = @ \cup {k}]
           /\ results_file' = [state |-> "ok", entries |-> results]
           /\ status_file' =
                 IF outcome = "raised"
                 THEN status_file
                 ELSE [status |-> "processing",
                       completed |-> Len(results),
                       total |-> ProcessingTotal(
                                    results, other_run.files_to_process)]
    /\ UNCHANGED <<uploaded_files, vendor_results, files_to_process, tasks,
                   done_queue, bpc>>
    /\ UNCHANGED <<pool, session_files>>
    /\ UNCHANGED <<pdfVars, matchVars, callVars>>

\* Lines 560-580 in the second thread.
OtherFinalStatus ==
    /\ other_run.pc = "collecting"
    /\ other_run.collected = 1..Len(other_run.files_to_process)
    /\ status_file' = [status |-> "complete",
                       completed |-> Len(other_run.vendor_results),
                       total |-> Len(other_run.vendor_results)]
    /\ other_run' = [other_run EXCEPT !.pc = "done"]
    /\ UNCHANGED <<uploaded_files, results_file, vendor_results,
                   files_to_process, tasks, done_queue, bpc>>
    /\ UNCHANGED <<pool, session_files>>
    /\ UNCHANGED <<pdfVars, matchVars, callVars>>

\* The first request of the results page has started the first thread.
InitSession ==
    /\ PdfIdle
    /\ MatchIdle
    /\ CallIdle
    /\ uploaded_files \in SeqsUpTo(FileNames, MaxSessionFiles) \ {<<>>}
    /\ results_file \in
          {[state |-> "absent", entries |-> <<>>],
           [state |-> "corrupt", entries |-> <<>>]}
          \cup {[state |-> "ok", entries |-> e] :
                   e \in SeqsUpTo({ResultEntry(f, "success") : f \in FileNames},
                                  MaxPrior)}
    /\ status_file = [status |-> "absent", completed |-> 0, total |-> 0]
    /\ vendor_results = <<>>
    /\ files_to_process = <<>>
    /\ tasks = <<>>
    /\ done_queue = <<>>
    /\ bpc = "start"
    /\ pool = NoPool
    /\ other_run = NoOtherRun
    /\ session_files = uploaded_files

NextSession ==
    \/ LoadResults \/ AllProcessed \/ SubmitAll
    \/ \E i \in 1..Len(tasks) : WorkerStart(i)
    \/ \E i \in 1..Len(tasks) : TaskReturns(i)
    \/ \E i \in 1..Len(tasks) : TaskRaises(i)
    \/ CollectSuccess \/ CollectError \/ FinalStatus
    \/ UploadFiles \/ RequestResults
    \/ OtherLoadResults \/ OtherAllProcessed \/ OtherSubmitAll
    \/ \E k \in 1..Len(other_run.files_to_process) :
          \E outcome \in {"success", "error", "raised"} :
             OtherCollect(k, outcome)
    \/ OtherFinalStatus

SpecSession == InitSession /\ [][NextSession]_vars

(***************************************************************************)
(* Properties of process_pdf / process_single_pdf, under SpecPdf.          *)
(***************************************************************************)
Failed(a) == a.outcome \in {"raised", "empty"}

ImageOcrStrategies == {"image_structured", "ocr"}

\* The blocks of process_pdf that apply to the document's vendor, in code
\* order, and the extractors they call: the vendor's strategy list.
ProcessPdfBlocks ==
    <<"gemini", "glen_rose", "kruse_sons", "quirch_foods", "gemini_fallback",
      "text", "ocr">>

VendorStrategies ==
    LET blocks == SelectSeq(ProcessPdfBlocks, BlockApplies)
    IN  [i \in 1..Len(blocks) |-> BlockStrategy(blocks[i])]

\* C1: when every strategy process_pdf attempted failed (raised or returned
\* no record), the document is recorded with status 'error', never as a
\* 'success' carrying an empty list.
C1_AllFailedIsReportedFailure ==
    (/\ entry # NoEntry
     /\ \A i \in 1..Len(attempts) : Failed(attempts[i]))
        => entry.status = "error"

\* C2: a strategy fails exactly when it raises or returns no record; a
\* failed strategy that is not the last of the vendor's list is followed by
\* the next strategy of the list; a strategy that returned records ends
\* process_pdf, which returns exactly those records.
C2_TransitionRule ==
    pc = "done" =>
        /\ \A i \in 1..Len(attempts) :
              /\ i <= Len(VendorStrategies)
              /\ attempts[i].strategy = VendorStrategies[i]
        /\ \A i \in 1..Len(attempts) :
              (Failed(attempts[i]) /\ i < Len(VendorStrategies))
                  => Len(attempts) > i
        /\ \A i \in 1..Len(attempts) :
              attempts[i].outcome = "records"
                  => /\ i = Len(attempts)
                     /\ pdf_outcome = [kind |-> "returned",
                                        data |-> attempts[i].data]

\* C3: an AI-preferred vendor (with the AI parser available) gets the AI
\* extractor first and, when that fails, Image OCR next; any other vendor
\* gets structured text first; and nothing but Image OCR is attempted
\* after an Image OCR attempt.
C3_StrategyOrder ==
    /\ (vendor \in gemini_vendors /\ HAS_GEMINI /\ Len(attempts) >= 1)
            => attempts[1].strategy = "gemini"
    /\ (vendor \in gemini_vendors /\ HAS_GEMINI /\ Len(attempts) >= 2)
            => attempts[2].strategy \in ImageOcrStrategies
    /\ (vendor \notin gemini_vendors /\ Len(attempts) >= 1)
            => attempts[1].strategy = "text"
    /\ \A i, j \in 1..Len(attempts) :
            (i < j /\ attempts[i].strategy \in ImageOcrStrategies)
                => attempts[j].strategy \in ImageOcrStrategies

\* C7: the list process_pdf returns holds no two records with the same
\* product id (stated for real ids only: the absent-id sentinel "N/A" is
\* not counted as a shared id).
C7_ReturnedIdsUnique ==
    pdf_outcome.kind = "returned" =>
        \A i, j \in 1..Len(pdf_outcome.data) :
            (i # j /\ pdf_outcome.data[i].product_id # "N/A")
                => pdf_outcome.data[i].product_id # pdf_outcome.data[j].product_id

(***************************************************************************)
(* Properties of process_pdfs_background, under FairSpecBatch.             *)
(***************************************************************************)
Occurrences(seq, x) == Cardinality({i \in 1..Len(seq) : seq[i] = x})

EntriesFor(results, f) ==
    Cardinality({i \in 1..Len(results) : results[i].filename = f})

\* The entries this run appended: what follows the loaded results.
AppendedEntries ==
    LET collected == Cardinality({i \in 1..Len(tasks) :
                                     tasks[i].state = "collected"})
        first == IF collected > Len(vendor_results)
                   THEN 1 ELSE Len(vendor_results) - collected + 1
    IN  SubSeq(vendor_results, first, Len(vendor_results))

BatchOutcomeRecorded ==
    /\ status_file.status = "complete"
    /\ status_file.completed = Len(vendor_results)
    /\ \A f \in FileNames :
          EntriesFor(AppendedEntries, f) = Occurrences(files_to_process, f)
    /\ \A i \in 1..Len(uploaded_files) :
          EntriesFor(vendor_results, uploaded_files[i]) >= 1
    /\ (/\ \A i, j \in 1..Len(uploaded_files) :
               i # j => uploaded_files[i] # uploaded_files[j]
        /\ \A i \in 1..Len(uploaded_files) :
               EntriesFor(IF results_file.state = "ok" THEN
                            SubSeq(vendor_results, 1,
                                   Len(vendor_results) - Len(tasks))
                          ELSE <<>>, uploaded_files[i]) <= 1)
          => \A i \in 1..Len(uploaded_files) :
                EntriesFor(vendor_results, uploaded_files[i]) = 1
    /\ \A i \in 1..Len(vendor_results) :
          vendor_results[i].status \in {"success", "error"}
    /\ files_to_process # <<>> =>
          results_file = [state |-> "ok", entries |-> vendor_results]

\* C6: provided each extraction task eventually returns or raises, the run
\* eventually reaches status 'complete'; at that point the result collection
\* holds exactly one entry, with status 'success' or 'error', for each
\* document submitted to the pool (and so exactly one per uploaded document
\* when file names are distinct), whichever tasks failed or raised.
C6_BatchCompletesWithOneEntryPerDocument ==
    /\ <>(bpc = "done")
    /\ [](bpc = "done" => BatchOutcomeRecorded)

\* C6 witness: a finished batch of at least two documents in which one
\* task raised and another document's entry is a success.
C6_Witness ==
    /\ bpc = "done"
    /\ Len(tasks) >= 2
    /\ \E i \in 1..Len(tasks) : tasks[i].outcome = "raised"
    /\ \E i \in 1..Len(tasks) : tasks[i].outcome = "success"
    /\ BatchOutcomeRecorded

(***************************************************************************)
(* Properties of match_product_by_id / match_product_with_gemini, under    *)
(* SpecMatch.                                                              *)
(***************************************************************************)
ById == entry_point = "match_product_by_id"

\* The record's identifier is the absent sentinel or normalizes to empty.
SentinelOrEmptyId ==
    \/ GetProductId(extracted_product) = NA
    \/ normalize_product_id(GetProductId(extracted_product)) = <<>>

\* The normalized token t of the extracted identifier.
Token == normalize_product_id(GetProductId(extracted_product))

\* C4: match_product_by_id never raises, whatever the record, the catalog,
\* use_ai_fallback and the state of the external AI service.
C4_MatchByIdNeverRaises ==
    ById => mpc # "raised"

\* C5: every MatchResult returned by match_product_by_id or
\* match_product_with_gemini has matched_id 'NO_MATCH' or the product_id of
\* an entry of the catalog that was passed in.
C5_MatchedIdIsNoMatchOrCatalogId ==
    mpc = "returned" =>
        \/ match_result.matched_id = NO_MATCH
        \/ match_result.matched_id \in IdsIn(reference_database)

Qualifies(ref_product) ==
    \/ normalize_product_id(ref_product.product_id) = Token
    \/ normalize_product_id(ref_product.product_id) = Token \o <<"-", "0", "1">>

Entry11_01 == [product_id |-> <<"1", "1", "-", "0", "1">>, description |-> "PORK BUTT"]

\* C9: for a non-empty token t the candidate set is exactly the catalog
\* entries (in catalog order) whose normalized id is t or t followed by
\* '-01'; a single candidate is returned with its id and description at
\* confidence 1.0 ('11' against a catalog holding only '11-01' matches at
\* 1.0); and a catalog token t never matches an extracted token t-01.
C9_CandidateSetAndSingleMatch ==
    (ById /\ mpc # "start" /\ ~SentinelOrEmptyId)
      => /\ matching_products = SelectSeq(reference_database, Qualifies)
         /\ Len(matching_products) = 1
              => /\ mpc = "returned"
                 /\ match_result.matched_id = matching_products[1].product_id
                 /\ match_result.matched_description
                        = matching_products[1].description
                 /\ match_result.confidence = "1.0"
         /\ (GetProductId(extracted_product) = <<"1", "1">>
                /\ reference_database = <<Entry11_01>>)
              => /\ match_result.matched_id = Entry11_01.product_id
                 /\ match_result.confidence = "1.0"
         /\ \A i \in 1..Len(reference_database) :
               normalize_product_id(reference_database[i].product_id)
                     \o <<"-", "0", "1">> = Token
                 => \A k \in 1..Len(matching_products) :
                       matching_products[k] # reference_database[i]

\* C9 witness: extracted '11', the catalog holds only '11-01', and that
\* entry is returned at 1.0.
C9_Witness ==
    /\ ById /\ mpc = "returned"
    /\ GetProductId(extracted_product) = <<"1", "1">>
    /\ reference_database = <<Entry11_01>>
    /\ matching_products = <<Entry11_01>>
    /\ match_result.matched_id = Entry11_01.product_id
    /\ match_result.confidence = "1.0"

\* Candidates with no extra suffix beyond the expected id pattern.
SuffixFree(products) ==
    {k \in 1..Len(products) : HasExtraSuffix(Upper(products[k].product_id)) = 0}

\* The preferred-brand exception: one Kruse-prefixed candidate, every other
\* candidate CG-prefixed.
OneKruseOtherwiseCG(products) ==
    /\ Cardinality({k \in 1..Len(products) : IsKruse(products[k])}) = 1
    /\ \E k \in 1..Len(products) : IsCG(products[k])
    /\ \A k \in 1..Len(products) : IsKruse(products[k]) \/ IsCG(products[k])

\* The catalog in each of its orders.
Reorderings(database) ==
    {[i \in 1..Len(database) |-> database[p[i]]] :
        p \in {q \in [1..Len(database) -> 1..Len(database)] :
                  \A i, j \in 1..Len(database) : i # j => q[i] # q[j]}}

\* What the deterministic path settles on for a catalog: the tie-break's
\* choice among the candidates.
TieBreak(database) ==
    select_simplest_product_id(MatchingProducts(Token, database))

SeveralCandidatesOneSuffixFree ==
    /\ ById /\ mpc # "start" /\ ~SentinelOrEmptyId
    /\ Len(matching_products) >= 2
    /\ Cardinality(SuffixFree(matching_products)) = 1

ReturnsSuffixFreeCandidate ==
    LET winner == matching_products[CHOOSE k \in SuffixFree(matching_products) : TRUE]
    IN  /\ mpc = "returned"
        /\ match_result.matched_id = winner.product_id
        /\ match_result.matched_description = winner.description
        /\ match_result.confidence = "1.0"
        /\ \A d \in Reorderings(reference_database) : TieBreak(d) = winner

EntryK002019_01 == [product_id |-> <<"K", "0", "0", "2", "0", "1", "9", "-", "0", "1">>, description |-> "BEEF CHUCK"]
EntryK002019_01FZ == [product_id |-> <<"K", "0", "0", "2", "0", "1", "9", "-", "0", "1", "F", "Z">>, description |-> "BEEF CHUCK FROZEN"]

\* C10 as stated: with several candidates of which exactly one has no
\* extra suffix, that candidate is returned at 1.0, in every catalog order.
C10_SuffixFreeCandidateWins ==
    SeveralCandidatesOneSuffixFree => ReturnsSuffixFreeCandidate

\* C10 amended: with several candidates of which exactly one has no extra
\* suffix, that candidate is returned at 1.0 in every catalog order
\* (K002019-01 out of {K002019-01, K002019-01FZ}), unless the candidates
\* are one Kruse-prefixed id and otherwise CG-prefixed ids: then the Kruse
\* id is returned at 1.0, in every catalog order.
C10_SuffixFreeCandidateWinsUnlessKruseOverCG ==
    SeveralCandidatesOneSuffixFree =>
        IF OneKruseOtherwiseCG(matching_products)
          THEN LET kruse == Head(SelectSeq(matching_products, IsKruse))
               IN  /\ mpc = "returned"
                   /\ match_result.matched_id = kruse.product_id
                   /\ match_result.confidence = "1.0"
                   /\ \A d \in Reorderings(reference_database) :
                          TieBreak(d) = kruse
          ELSE /\ ReturnsSuffixFreeCandidate
               /\ IdsIn(matching_products)
                     = {EntryK002019_01.product_id, EntryK002019_01FZ.product_id}
                    => match_result.matched_id = EntryK002019_01.product_id

\* C10 witness: the candidates are K002019-01FZ and K002019-01, in that
\* catalog order, and K002019-01 is returned at 1.0.
C10_Witness ==
    /\ ById /\ mpc = "returned"
    /\ reference_database = <<EntryK002019_01FZ, EntryK002019_01>>
    /\ matching_products = reference_database
    /\ match_result.matched_id = EntryK002019_01.product_id
    /\ match_result.confidence = "1.0"

\* Both ids of the leading-zero pair are among the candidates.
LeadingZeroPairAmongCandidates ==
    {KRUSE5, KRUSE05} \subseteq UpperIds(matching_products)

\* C11: whenever the candidates hold both Kruse5 and Kruse05, the
\* deterministic path returns nothing (neither at 1.0 nor at 0.9): the
\* decision goes to an AI-assisted call on the candidates, with
\* use_ai_fallback on or off and whatever other candidates there are.
C11_LeadingZeroPairAlwaysDeferredToAI ==
    (ById /\ mpc # "start" /\ LeadingZeroPairAmongCandidates)
      => /\ ai_call.called
         /\ ai_call.database = matching_products
         /\ mpc = "returned" => match_result = ai_call.result

\* Several candidates, and select_simplest_product_id names no winner.
NoSimplicityWinner ==
    /\ Len(matching_products) >= 2
    /\ select_simplest_product_id(matching_products) = NoProduct

\* The token is one or two characters, every one a digit.
NumericAtMostTwoDigits ==
    /\ Len(Token) \in {1, 2}
    /\ \A i \in 1..Len(Token) : Token[i] \in Digits

\* The decision is handed to match_product_with_gemini on the candidates:
\* the prompt, once built, lists them and nothing else, and what the call
\* returns or raises is what match_product_by_id returns or raises.
DeferredToAIOnCandidates ==
    /\ ai_call.called
    /\ ai_call.database = matching_products
    /\ ai_call.response # NoResponse => ai_call.offered = matching_products
    /\ mpc \in {"returned", "raised"} => mpc = ai_call.outcome
    /\ mpc = "returned" => match_result = ai_call.result

\* The deterministic path returned the first candidate at 0.9.
FirstCandidateAt09 ==
    /\ mpc = "returned"
    /\ ~ai_call.called
    /\ match_result.matched_id = matching_products[1].product_id
    /\ match_result.matched_description = matching_products[1].description
    /\ match_result.confidence = "0.9"

ExternalModelFailed == ai_call.response = ServiceError

ModelAnswered ==
    ai_call.response.body \in {"json_object", "json_other", "text"}

\* json.loads rejects the text: it is not JSON, or its fence stayed on.
StrictParsingFails ==
    \/ ai_call.response.body = "text"
    \/ ai_call.response.fence = "kept"

\* The text holds a matched_id field with a quoted, non-empty value.
HoldsQuotedMatchedId ==
    /\ ai_call.response.matched_id # MissingKey
    /\ Len(ai_call.response.matched_id) > 0

\* A MatchResult: the four fields, matched_id and reasoning set.
WellFormedMatchResult(result) ==
    /\ DOMAIN result
         = {"matched_id", "confidence", "reasoning", "matched_description"}
    /\ result.matched_id # PyNone
    /\ result.reasoning # "None"

\* C14: whatever text the external model returns (a JSON object, JSON of
\* another shape, text that is not JSON, fenced or not), AI-assisted
\* matching returns a MatchResult of four fields and does not raise; when
\* strict parsing fails, matched_id is the quoted matched_id value found in
\* the text, with confidence null, and 'NO_MATCH' with a parse-failure
\* reasoning when the text holds no such value.
C14_EveryResponseYieldsMatchResult ==
    ModelAnswered
      => /\ ai_call.outcome = "returned"
         /\ mpc = "returned"
         /\ match_result = ai_call.result
         /\ WellFormedMatchResult(ai_call.result)
         /\ StrictParsingFails
              => IF HoldsQuotedMatchedId
                   THEN /\ ai_call.result.matched_id
                             = ai_call.response.matched_id
                        /\ ai_call.result.confidence = "None"
                   ELSE /\ ai_call.result.matched_id = NO_MATCH
                        /\ ai_call.result.confidence = "None"
                        /\ ai_call.result.reasoning
                             = "Failed to parse Gemini response"

\* C14 witness: a JSON object whose code fence the cleaning left on; its
\* matched_id, a catalog id, was recovered from the text.
C14_Witness ==
    /\ ModelAnswered
    /\ ai_call.response.fence = "kept"
    /\ ai_call.response.matched_id \in IdsIn(ai_call.database)
    /\ match_result.matched_id = ai_call.response.matched_id
    /\ match_result.reasoning = "Parsed from malformed JSON"

(***************************************************************************)
(* Properties of load_reference_database, under SpecLoad.                  *)
(***************************************************************************)
\* The id ends in the promotional suffix or begins with the prefix of an
\* excluded family.
PromotionalOrExcludedFamily(id) ==
    LET ends(suffix) ==
            Len(id) >= Len(suffix)
              /\ \A k \in 1..Len(suffix) :
                    id[Len(id) - Len(suffix) + k] = suffix[k]
        begins(prefix) ==
            Len(id) >= Len(prefix)
              /\ \A k \in 1..Len(prefix) : id[k] = prefix[k]
    IN  \/ ends(<<"S", "P">>)
        \/ ends(<<"-", "S", "P">>)
        \/ begins(<<"Z", "T", "B", "D">>)
        \/ begins(<<"T", "E", "M", "P", "G", "L", "E", "N">>)

\* Identifiers later matched against the loaded catalog.
MatchedAgainstLoaded ==
    {<<"1", "9">>, <<"1", "9", "-", "0", "1">>,
     <<"K", "0", "0", "2", "0", "1", "9", "-", "0", "1", "S", "P">>,
     <<"Z", "T", "B", "D", "1", "9">>}

\* The candidates match_product_by_id collects for `id` in the loaded
\* catalog.
CandidatesInLoaded(id) ==
    MatchingProducts(normalize_product_id(id), call_outcome.value)

\* C15: no entry load_reference_database returns has an id that ends in
\* 'SP' or '-SP' or begins with 'ZTBD' or 'TEMPGLEN', and so no such id is
\* among the candidates (from which a deterministic match takes its
\* matched_id) for any identifier matched against the loaded catalog.
C15_LoadedCatalogHoldsNoExcludedId ==
    (callee = "load_reference_database" /\ call_outcome.kind = "returned")
      => /\ \A i \in 1..Len(call_outcome.value) :
               ~PromotionalOrExcludedFamily(call_outcome.value[i].product_id)
         /\ \A id \in MatchedAgainstLoaded :
               \A i \in 1..Len(CandidatesInLoaded(id)) :
                  ~PromotionalOrExcludedFamily(
                      CandidatesInLoaded(id)[i].product_id)

\* C15 witness: a sheet with K002019-01 and its promotional variant
\* K002019-01SP; the loaded catalog is K002019-01 alone, and it is the one
\* candidate for '19'.
C15_Witness ==
    /\ callee = "load_reference_database"
    /\ call_outcome.kind = "returned"
    /\ Len(call_args.rows) = 2
    /\ \E i \in 1..2 :
          call_args.rows[i].product_code
            = <<"K", "0", "0", "2", "0", "1", "9", "-", "0", "1", "S", "P">>
    /\ Len(call_outcome.value) = 1
    /\ Len(CandidatesInLoaded(<<"1", "9">>)) = 1

(***************************************************************************)
(* Properties of normalize_product_id, under SpecNormalize.                *)
(***************************************************************************)
\* The identifier as the specified algorithm reads it: trimmed, upper case.
Trimmed(id) == Upper(Strip(id))

HasDigit(id) == \E k \in 1..Len(id) : id[k] \in Digits

\* K002ddd-NN, optionally followed by letters and hyphens.
InK002Family(s) ==
    /\ Len(s) >= 10
    /\ SubSeq(s, 1, 4) = <<"K", "0", "0", "2">>
    /\ \A k \in {5, 6, 7, 9, 10} : s[k] \in Digits
    /\ s[8] = "-"
    /\ \A k \in 11..Len(s) : s[k] \notin Digits /\ s[k] # " " /\ s[k] # "/"

\* A digit string without its leading zeros ('0' when nothing is left).
RECURSIVE WithoutLeadingZeros(_)
WithoutLeadingZeros(d) ==
    IF Len(d) > 1 /\ d[1] = "0" THEN WithoutLeadingZeros(Tail(d)) ELSE d

\* The specified algorithm on an identifier that holds a digit: the K002
\* family rule, and otherwise the first numeric core, with '-NN' when the
\* core is followed at once by a hyphen, exactly two digits and then
\* nothing but letters.
SpecifiedNormalization(id) ==
    LET s == Trimmed(id)
        first == CHOOSE k \in 1..Len(s) :
                    s[k] \in Digits /\ \A j \in 1..(k - 1) : s[j] \notin Digits
        last == CHOOSE k \in first..Len(s) :
                    /\ \A j \in first..k : s[j] \in Digits
                    /\ k < Len(s) => s[k + 1] \notin Digits
        core == WithoutLeadingZeros(SubSeq(s, first, last))
        suffixed == /\ Len(s) >= last + 3
                    /\ s[last + 1] = "-"
                    /\ s[last + 2] \in Digits /\ s[last + 3] \in Digits
                    /\ \A j \in (last + 4)..Len(s) :
                          \E u \in DOMAIN UpperLetters : UpperLetters[u] = s[j]
    IN  IF InK002Family(s)
          THEN WithoutLeadingZeros(SubSeq(s, 5, 7)) \o SubSeq(s, 8, 10)
        ELSE IF suffixed THEN core \o SubSeq(s, last + 1, last + 3)
        ELSE core

\* The examples the specification lists.
SpecifiedExamples ==
    {<<<<"Z", "1", "5", "6", "1", "7", "1">>,
       <<"1", "5", "6", "1", "7", "1">>>>,
     <<<<"G", "0", "0", "1", "5", "0", "5", "0", "1", "9", "4">>,
       <<"1", "5", "0", "5", "0", "1", "9", "4">>>>,
     <<<<"K", "0", "0", "2", "0", "1", "3", "-", "0", "1">>,
       <<"1", "3", "-", "0", "1">>>>,
     <<<<"1", "5", "6", "1", "7", "1", "-", "0", "1">>,
       <<"1", "5", "6", "1", "7", "1", "-", "0", "1">>>>,
     <<<<"1", "5", "6", "1", "7", "1", "A">>,
       <<"1", "5", "6", "1", "7", "1">>>>}

\* normalize_product_id was called on its own and has returned.
Normalized == callee = "normalize_product_id" /\ call_outcome.kind = "returned"

\* C16: on every identifier that holds a digit, normalize_product_id
\* returns what the specified algorithm gives (K002ddd-NN with noise gives
\* ddd without leading zeros and -NN; otherwise the first numeric core
\* without prefix and leading zeros, with -NN only when a hyphen and exactly
\* two digits follow it, trailing letters dropped), the listed examples
\* among them.
C16_NormalizeAgreesWithSpecifiedAlgorithm ==
    (Normalized /\ call_args # PyNone /\ HasDigit(call_args))
      => /\ call_outcome.value = SpecifiedNormalization(call_args)
         /\ \A e \in SpecifiedExamples :
               call_args = e[1] => call_outcome.value = e[2]

\* C17: normalize_product_id returns the empty token for None, for the
\* empty string, for 'N/A' in any casing and with surrounding whitespace,
\* and for every string that holds no digit.
C17_AbsentOrUnrecognizableGivesEmptyToken ==
    (Normalized /\ (call_args = PyNone \/ ~HasDigit(call_args)))
      => call_outcome.value = <<>>

(***************************************************************************)
(* Properties of the vendor parsers (SpecVendor).                          *)
(***************************************************************************)
\* The absent sentinel and its casing and punctuation variants.
SentinelVariants == {NA, <<"n", "/", "a">>, <<"N", "A">>, <<"-">>}

ValidatedSentinel ==
    /\ callee = "validate_product_id"
    /\ call_outcome # Pending
    /\ call_args.product_id \in SentinelVariants

\* C20: for every registered vendor parser, validate_product_id returns
\* true for the absent sentinel 'N/A' and for each of its variants 'n/a',
\* 'NA' and '-'.
C20_SentinelVariantsAlwaysValidate ==
    ValidatedSentinel => call_outcome = Returned(TRUE)

\* The parsers that define parse_table_row themselves.
OwnTableRow ==
    {"rw_zant", "kruse_sons", "glen_rose", "apsic_wholesale", "delmar_cow"}

\* What a row of three or more cells carries: the identifier cell, the
\* description between it and the price, and the cleaned price.
RowIdentifier(row) == Strip(row[1])

RowDescription(vendor_code, row) ==
    IF vendor_code = "rw_zant"
      THEN CollapseSpaces(JoinSpace(
               SelectSeq(SubSeq(row_clean(row), 2, Len(row) - 1),
                         LAMBDA cell : cell # <<>>)))
      ELSE Strip(row[2])

RowCost(vendor_code, row) == clean_cost(vendor_code, Strip(row[Len(row)]))

\* The identifier is there, and what the parser reads from it does not
\* pass the vendor's validate_product_id.
PresentButInvalidId(vendor_code, row) ==
    LET read == IF vendor_code \in {"apsic_wholesale", "delmar_cow"}
                  THEN RowIdentifier(row)
                  ELSE extract_product_id(vendor_code,
                                          RowIdentifier(row)).product_id
    IN  /\ RowIdentifier(row) # <<>>
        /\ ~validate_product_id(vendor_code, read)

InvalidIdOnGoodRow ==
    /\ callee = "parse_table_row"
    /\ call_outcome # Pending
    /\ call_args.vendor_code \in OwnTableRow
    /\ Len(call_args.row) >= 3
    /\ PresentButInvalidId(call_args.vendor_code, call_args.row)
    /\ is_valid_description(call_args.vendor_code,
                            RowDescription(call_args.vendor_code,
                                           call_args.row))
    /\ RowCost(call_args.vendor_code, call_args.row) # PyNone

\* C19: for every vendor parser, a row whose identifier is present but fails
\* the vendor's validate_product_id, while its description and cost are
\* valid, makes parse_table_row return a record with product_id 'N/A' and
\* that description and cost; the row is not discarded.
C19_InvalidIdReplacedBySentinel ==
    InvalidIdOnGoodRow =>
        call_outcome =
            Returned(Product(NA,
                             RowDescription(call_args.vendor_code,
                                            call_args.row),
                             RowCost(call_args.vendor_code, call_args.row)))

\* The same, of KruseSonsParser alone.
KruseSonsReplacesInvalidId ==
    call_args.vendor_code = "kruse_sons" => C19_InvalidIdReplacedBySentinel

KruseSonsKeptRow ==
    InvalidIdOnGoodRow /\ call_args.vendor_code = "kruse_sons"

\* RWZantParser and GlenRoseParser discard such a row.
DiscardedForItsId ==
    /\ InvalidIdOnGoodRow
    /\ call_args.vendor_code \in {"rw_zant", "glen_rose"}
    /\ call_outcome = Returned(PyNone)

DiscardsEveryInvalidId ==
    (InvalidIdOnGoodRow /\ call_args.vendor_code \in {"rw_zant", "glen_rose"})
        => call_outcome = Returned(PyNone)

ParsedRowOrLine ==
    /\ callee \in {"parse_table_row", "parse_text_line"}
    /\ call_outcome # Pending

\* A record of product_id, description and cost.
IsProductRecord(value) ==
    DOMAIN value = {"product_id", "description", "cost"}

\* C18: for every registered vendor parser and every input row or line,
\* parse_table_row and parse_text_line return a record or null and never
\* raise, so that a row failing validation never stops the rows after it.
C18_ParsersReturnRecordOrNullNeverRaise ==
    ParsedRowOrLine =>
        /\ call_outcome.kind = "returned"
        /\ call_outcome.value = PyNone \/ IsProductRecord(call_outcome.value)

\* A parser reached validate_price or validate_description.
RaisedOnRowOrLine == ParsedRowOrLine /\ call_outcome = AttributeError

(***************************************************************************)
(* Properties of clean_cost (SpecCost).                                    *)
(***************************************************************************)
\* The raw cost is '$', digits, a point and two digits: an amount in the
\* price grammar of every clean_cost.
IsDollarAmount(s) ==
    /\ Len(s) >= 5
    /\ s[1] = "$"
    /\ AllDigits(s, 2, Len(s) - 3)
    /\ s[Len(s) - 2] = "."
    /\ AllDigits(s, Len(s) - 1, Len(s))

\* Its amount lies in 0.01 to 9999.99.
AmountInRange(s) ==
    LET whole == ToNat(SubSeq(s, 2, Len(s) - 3))
        cents == ToNat(SubSeq(s, Len(s) - 1, Len(s)))
    IN  whole <= 9999 /\ (whole > 0 \/ cents > 0)

CleanedRawAmount ==
    /\ callee = "clean_cost"
    /\ ~call_args.formatted
    /\ call_outcome # Pending
    /\ IsDollarAmount(call_args.cost_str)

\* C21: for every clean_cost, a raw cost whose amount lies outside 0.01 to
\* 9999.99 yields None, and every amount inside that range written in the
\* price grammar is accepted.
C21_AmountAcceptedExactlyInRange ==
    CleanedRawAmount =>
        (call_outcome = Returned(PyNone)
            <=> ~AmountInRange(call_args.cost_str))

\* An amount outside the range came back formatted.
OutOfRangeAccepted ==
    /\ CleanedRawAmount
    /\ ~AmountInRange(call_args.cost_str)
    /\ call_outcome # Returned(PyNone)

\* An amount inside the range was turned away.
InRangeRejected ==
    /\ CleanedRawAmount
    /\ AmountInRange(call_args.cost_str)
    /\ call_outcome = Returned(PyNone)

\* C22: for every clean_cost and every raw cost it accepts as a numeric
\* amount, the formatted output passed through the same clean_cost again
\* comes back unchanged, amount and per-unit suffix included.
C22_FormattingIsIdempotent ==
    [][(callee = "clean_cost" /\ ~call_args.formatted
          /\ call_args'.formatted)
         => call_outcome' = call_outcome]_vars

\* C22 witness: a formatted amount with a per-unit suffix went through the
\* same clean_cost again and came back as it was.
C22_Witness ==
    /\ callee = "clean_cost"
    /\ call_args.formatted
    /\ call_outcome = Returned(call_args.cost_str)
    /\ Len(call_args.cost_str) > 3
    /\ SubSeq(call_args.cost_str, Len(call_args.cost_str) - 2,
              Len(call_args.cost_str)) \in {<<"/", "L", "B">>,
                                            <<"/", "C", "S">>}

(***************************************************************************)
(* normalize_product_id applied to its own result (SpecNormalize).         *)
(***************************************************************************)
\* C30: normalize_product_id is idempotent: for every identifier x,
\* normalize_product_id(normalize_product_id(x)) = normalize_product_id(x).
C30_NormalizeIsIdempotent ==
    Normalized =>
        normalize_product_id(call_outcome.value) = call_outcome.value

\* Identifiers without a digit, on which a second normalization changes
\* nothing: the first returned them upper-cased and trimmed.
DigitFreeFixedPoint ==
    /\ Normalized
    /\ call_outcome.value # <<>>
    /\ FirstDigit(call_outcome.value) = 0
    /\ normalize_product_id(call_outcome.value) = call_outcome.value

\* Every result other than the sentinel 'N/A' is a fixed point.
IdempotentOffSentinel ==
    (Normalized /\ call_outcome.value # NA) =>
        normalize_product_id(call_outcome.value) = call_outcome.value

(***************************************************************************)
(* The confidence of an AI match (SpecMatch).                              *)
(***************************************************************************)
\* The confidence_threshold argument: its default, which every caller in
\* ai_matcher.py passes on unchanged.
confidence_threshold == "0.8"

\* A confidence in hundredths.
Hundredths(confidence) ==
    CASE confidence = "0.95" -> 95
      [] confidence = "0.8" -> 80
      [] confidence = "0.5" -> 50
      [] OTHER -> 0

\* match_product_with_gemini returned a matched_id other than NO_MATCH.
GeminiReturnedMatch ==
    /\ ai_call.called
    /\ ai_call.outcome = "returned"
    /\ ai_call.result.matched_id # NO_MATCH

\* C26: match_product_with_gemini returns a matched_id other than NO_MATCH
\* only when the reported confidence is at least confidence_threshold; an
\* answer with lower or unknown confidence is never returned as a match.
C26_MatchOnlyAtOrAboveThreshold ==
    GeminiReturnedMatch =>
        /\ ai_call.result.confidence # "None"
        /\ Hundredths(ai_call.result.confidence)
              >= Hundredths(confidence_threshold)

\* A match came back at confidence 0.5, under the threshold.
MatchBelowThreshold ==
    /\ GeminiReturnedMatch
    /\ ai_call.result.confidence = "0.5"

\* A match recovered from malformed text came back with no confidence.
MatchOfUnknownConfidence ==
    /\ GeminiReturnedMatch
    /\ ai_call.result.confidence = "None"

(***************************************************************************)
(* The collector of process_pdfs_background (SpecBatch).                   *)
(***************************************************************************)
\* The collector takes the next finished future off as_completed.
HandlesCompletion ==
    /\ done_queue # <<>>
    /\ done_queue' = Tail(done_queue)

\* The entry of the task at the head of the completion queue: the dict its
\* process_single_pdf returned, or an error entry when it raised.
CompletedEntry ==
    LET task == tasks[Head(done_queue)]
    IN  ResultEntry(task.filename,
                    IF task.outcome = "raised" THEN "error" ELSE task.outcome)

SomeCollected ==
    \E i \in 1..Len(tasks) : tasks[i].state = "collected"

\* C23: each time the collector handles a completion, success or captured
\* failure, it appends that document's entry to the in-memory collection,
\* in completion order, and rewrites the results file, so that after every
\* handled completion the file holds the whole collection, the entry just
\* completed included.
C23_EachCompletionAppendedAndWholeFileRewritten ==
    /\ [][HandlesCompletion =>
            /\ vendor_results' = Append(vendor_results, CompletedEntry)
            /\ results_file' = [state |-> "ok", entries |-> vendor_results']
         ]_vars
    /\ [](SomeCollected =>
            results_file = [state |-> "ok", entries |-> vendor_results])

\* C23 witness: two documents were collected in the reverse of their
\* submission order, one of them a captured failure; the file holds both.
C23_Witness ==
    /\ bpc = "collecting"
    /\ Len(files_to_process) = 2
    /\ files_to_process[1] # files_to_process[2]
    /\ \A i \in 1..2 : tasks[i].state = "collected"
    /\ Len(vendor_results) = 2
    /\ vendor_results[1].filename = files_to_process[2]
    /\ vendor_results[2].filename = files_to_process[1]
    /\ \E i \in 1..2 : tasks[i].outcome = "raised"
    /\ results_file = [state |-> "ok", entries |-> vendor_results]

\* The file names with an entry in results.json as it is stored.
StoredFilenames ==
    IF results_file.state = "ok" THEN FilenamesOf(results_file.entries) ELSE {}

IsPrefix(s, t) == Len(s) <= Len(t) /\ SubSeq(t, 1, Len(s)) = s

\* Every uploaded file has an entry in the stored results.
EveryUploadStored ==
    \A i \in 1..Len(uploaded_files) : uploaded_files[i] \in StoredFilenames

\* C29: in one run of process_pdfs_background, a document whose file name
\* already has an entry in the stored results is never submitted for
\* extraction again and its stored entry is left unchanged; when every
\* uploaded file already has an entry the run extracts nothing, leaves the
\* results file unchanged and sets the status to 'complete'.
C29_StoredDocumentsAreSkippedAndKept ==
    /\ [][/\ (tasks = <<>> /\ tasks' # <<>>) =>
                \A i \in 1..Len(tasks') :
                    tasks'[i].filename \notin StoredFilenames
          /\ results_file.state = "ok" =>
                /\ results_file'.state = "ok"
                /\ IsPrefix(results_file.entries, results_file'.entries)
          /\ (bpc = "loaded" /\ EveryUploadStored) =>
                /\ bpc' = "done"
                /\ tasks' = <<>>
                /\ results_file' = results_file
                /\ status_file'.status = "complete"
         ]_vars
    /\ []((bpc = "start" /\ EveryUploadStored) => tasks = <<>>)

\* C29 witness: a finished run over an upload that held a document with a
\* stored entry and a new one: one task, for the new document, and the
\* stored entry still first in the file.
C29_Witness ==
    /\ bpc = "done"
    /\ Len(uploaded_files) = 2
    /\ Len(tasks) = 1
    /\ Len(results_file.entries) = 2
    /\ results_file.entries[1].filename \in
          {uploaded_files[i] : i \in 1..2} \ {tasks[1].filename}
    /\ results_file.entries[2].filename = tasks[1].filename

\* A finished run that found every uploaded file among the stored results.
NothingLeftToExtract ==
    /\ bpc = "done"
    /\ tasks = <<>>
    /\ EveryUploadStored
    /\ status_file.status = "complete"

TaskStep(i) == WorkerStart(i) \/ TaskReturns(i) \/ TaskRaises(i)

\* C24, the tasks told apart (SpecBatch): a step of an extraction task
\* writes that task's future and the executor's completion queue, and
\* nothing another task writes or the collector keeps.
TaskStepsWriteOnlyTheirOwnFuture ==
    [][\A i \in 1..Len(tasks) :
          TaskStep(i) =>
             /\ \A j \in 1..Len(tasks) : j # i => tasks'[j] = tasks[j]
             /\ tasks'[i].filename = tasks[i].filename
             /\ UNCHANGED <<uploaded_files, results_file, status_file,
                            vendor_results, files_to_process>>
      ]_vars

(***************************************************************************)
(* Properties of the session's threads, under SpecSession.                 *)
(***************************************************************************)
\* C27: once a document's entry has been written to results.json, every
\* later version of the file still holds an entry for that document, in
\* every interleaving of the background run with a second request of the
\* results page or a further upload to the session.
C27_StoredEntriesAreNeverLost ==
    [][\A filename \in StoredFilenames : filename \in StoredFilenames']_vars

\* Two threads of the session have each written results.json from their
\* own list, and the entry the first one stored is gone.
LostEntry ==
    /\ other_run.pc \in {"collecting", "done"}
    /\ \E i \in 1..Len(vendor_results) :
          /\ \E j \in 1..Len(files_to_process) :
                vendor_results[i].filename = files_to_process[j]
          /\ vendor_results[i].filename \notin StoredFilenames

(***************************************************************************)
(* Properties of extract_image_tables_structured, under SpecPdf.           *)
(***************************************************************************)
\* A record without an identifier: the vendor parser gave it the sentinel.
HasSentinelId(r) == r.product_id = "N/A"

\* C28: in extract_image_tables_structured every line that the vendor
\* parser turns into a record with the sentinel 'N/A' as product_id is
\* retained, also when an earlier record of the document had the sentinel.
C28_SentinelRecordsAreAllRetained ==
    [][\A r \in ParsedRecords :
          (/\ running = "image_structured"
           /\ rows_read' = rows_read + 1
           /\ HasSentinelId(r)
           /\ StructuredRecord(r))
             => extracted_data' = Append(extracted_data, r)
      ]_vars

\* extract_image_tables_structured has read every line of a document and
\* holds one record, the sentinel its id: whatever the later lines were
\* parsed to, no second record without an identifier was kept.
OneSentinelRecordKept ==
    /\ running = "image_structured"
    /\ rows_read = MaxRows
    /\ Len(extracted_data) = 1
    /\ HasSentinelId(extracted_data[1])

(***************************************************************************)
(* Properties of the Quirch Foods descriptions, under SpecQuirch.          *)
(***************************************************************************)
\* The raw description from the earliest occurrence of a recognized prefix.
FromEarliestPrefix(text) ==
    Strip(SubSeq(text, Find(Lower(text), valid_prefixes[EarliestPrefix(text)]),
                 Len(text)))

StartsWithRecognizedPrefix(description) ==
    \E i \in DOMAIN valid_prefixes :
       StartsWith(Lower(description), valid_prefixes[i])

\* A record was retained for the row or line.
RetainedDescription ==
    /\ call_outcome # Pending
    /\ call_outcome.value # PyNone

\* C25: whichever strategy produced it, the description of a retained
\* Quirch Foods record starts with a recognized prefix (Frzn, Fsh, Chkn,
\* Misc, Prep) and is the raw description from the earliest occurrence of
\* any recognized prefix on, what precedes it discarded.
C25_DescriptionBeginsAtEarliestPrefix ==
    RetainedDescription =>
       /\ StartsWithRecognizedPrefix(call_outcome.value)
       /\ PrefixesIn(call_args.description) # {}
       /\ CollapseSpaces(call_outcome.value)
             = CollapseSpaces(FromEarliestPrefix(call_args.description))

\* clean_product_data kept a description with the brand before its prefix.
BrandRetained ==
    /\ callee = "clean_product_data"
    /\ call_args.description =
          <<"T", "y", "s", "o", "n", " ", "F", "r", "z", "n">>
    /\ call_outcome = Returned(call_args.description)

\* parse_text_line cut 'Chkn Wings Frzn' at 'Frzn', the later prefix.
CutAtLaterPrefix ==
    /\ callee = "quirch_foods.parse_text_line"
    /\ call_args.description =
          <<"C", "h", "k", "n", " ", "W", "i", "n", "g", "s", " ",
            "F", "r", "z", "n">>
    /\ call_outcome = Returned(<<"F", "r", "z", "n">>)

====
